---- MODULE Spec2Model ----
(***************************************************************************)
(* State-machine model of the chunked recorder, the durable upload queue   *)
(* and the storage cleanup of bg-camera (UploadService.ts,                 *)
(* CameraService.ts, the StorageServiceClass source file).                 *)
(*                                                                         *)
(* Granularity: one step per synchronous stretch of code, i.e. the code    *)
(* between two awaits.  Promise continuations that follow one another      *)
(* without an await on I/O (microtasks) belong to the same step.           *)
(* AsyncStorage.setItem is linearised at the call: JSON.stringify runs     *)
(* synchronously in saveQueueToStorage, so the snapshot written is the     *)
(* queue as it is at the call, and the continuation resumes in a later     *)
(* step.                                                                   *)
(***************************************************************************)
EXTENDS Integers, Sequences, FiniteSets, TLC

VARIABLES
    \* ---- UploadServiceClass (UploadService.ts:30-33)
    uploadQueue,      \* the array: sequence of references (ids) to item objects
    item,             \* the heap of UploadQueueItem objects, by id
    isProcessing,     \* the processing guard
    uploadPromises,   \* keys of the in-flight map
    obs,              \* the callbacks array, with what each subscriber was handed
    \* ---- collaborators
    stored,           \* AsyncStorage value under 'upload_queue': Null or <<the JSON array>>
    files,            \* paths that exist on disk (the chunk file of item id is id)
    settings,         \* SettingsService.getSettings()
    \* ---- activations suspended at an await
    passes,           \* running processQueue calls
    ops,              \* running performUpload calls
    resumes,          \* addToQueue/retryUpload calls awaiting saveQueueToStorage
    removes,          \* running removeFromQueue calls
    clears,           \* clearCompleted calls awaiting saveQueueToStorage
    timers,           \* per id: retry timers set and not yet fired
    \* ---- environment and history
    phase,            \* "dead", "loaded" (loadQueueFromStorage returned) or "running"
    nextId,           \* ids handed out so far + 1 (generateUploadId is fresh)
    failCount,        \* per id: failed attempts since enqueue / last retryUpload
    delays,           \* per id: the delays of the timers set since enqueue / last retryUpload
    noops,            \* a processQueue call returned at the guard (sticky)
    call,             \* the last retryUpload/removeFromQueue call: [op, id, n-th call]
    budget,           \* remaining environment events, see the bounds below
    \* ---- StorageServiceClass
    disk,             \* the chunk directory, in directory order: [name, size, createdAt]
    cleanup,          \* the running cleanupStorageIfNeeded call and its history
    \* ---- CameraServiceClass (CameraService.ts:27-34)
    cam,              \* the recorder's fields and its timers
    camOps            \* running startRecording/completeCurrentChunk/stopRecording calls

svcVars == <<uploadQueue, item, isProcessing, uploadPromises, stored, passes, ops,
             timers, failCount, delays, obs, clears, call>>
envVars == <<files, settings, resumes, removes, phase, nextId, noops, budget>>
stoVars == <<disk, cleanup>>
camVars == <<cam, camOps>>
vars == <<svcVars, envVars, stoVars, camVars>>

(***************************************************************************)
(* Bounds of the model (not program constants).                           *)
(***************************************************************************)
MaxItems == 2          \* chunks ever enqueued in Spec
MaxRetry == 1          \* maxRetryAttempts ranges over 0..MaxRetry in Spec
MaxRetryItems == 1     \* chunks ever enqueued in SpecRetry
MaxRetryAttempts == 2  \* maxRetryAttempts ranges over 0..MaxRetryAttempts in SpecRetry
MaxManualRetries == 1  \* retryUpload calls in SpecRetry
MaxSucceedItems == 2   \* chunks ever enqueued in SpecSucceed
MaxFailRetry == 4      \* maxRetryAttempts ranges over 0..MaxFailRetry in SpecFail
MaxRestartItems == 2   \* chunks ever enqueued in SpecRestart
MaxCrashes == 1        \* process deaths in SpecRestart
MaxBatchItems == 5     \* persisted chunks at the start of SpecBatch
MaxFiles == 3          \* files of any size and age in SpecStorage
MaxUniformFiles == 10  \* files of the 150 MiB scenario in SpecStorage
MaxRotations == 3      \* chunk-timer fires in SpecCamera
MaxStops == 1          \* stopRecording calls in SpecCamera
MaxSubscribers == 2    \* onQueueUpdate calls in SpecObserve
MaxAddItems == 2       \* chunks ever enqueued in SpecAdd
MaxClearItems == 3     \* chunks ever enqueued in SpecClear
MaxEvictFiles == 2     \* chunk files on disk in SpecEvict
MaxStarts == 2         \* startRecording calls in SpecSession
MaxSessionRotations == 1 \* chunk-timer fires in SpecSession
MaxSessionStops == 1   \* stopRecording calls of the user in SpecSession
MaxRemoveItems == 2    \* chunks ever enqueued in SpecRemove
MaxRemoves == 2        \* removeFromQueue calls in SpecRemove
MaxOverlapItems == 2   \* chunks ever enqueued in SpecOverlap
MaxOverlapRemoves == 2 \* removeFromQueue calls in SpecOverlap
MaxTornItems == 2      \* chunks ever enqueued in SpecTorn
MaxLifeItems == 1      \* chunks ever enqueued in SpecLife
MaxTimerItems == 2     \* chunks ever enqueued in SpecTimer
MaxManualItems == 2    \* chunks enqueued in SpecManual
MaxRecoverItems == 1   \* items of the persisted queue in SpecRecover
MaxLateItems == 4      \* persisted chunks at the start of SpecLate

Sizes == {0, 150, 600}        \* file sizes drawn in SpecStorage (MiB)
Times == {1, 2, 30}           \* creation times drawn in SpecStorage (hours)
Clock == {26, 31}             \* Date.now() drawn in SpecStorage (hours)
Quotas == {1}                 \* maxLocalStorageGB drawn in SpecStorage

(***************************************************************************)
(* Program constants.                                                      *)
(***************************************************************************)
MAX_CONCURRENT_UPLOADS == 3
RETRY_DELAY_BASE == 5000

IdLimit == 6
Ids == 1..IdLimit
Null == <<>>
Undefined == -1        \* an absent numeric field (progress)
NoError == "undefined" \* an absent error field

RECURSIVE Pow2(_)
\* Math.pow(2, n) for n >= 0
Pow2(n) == IF n <= 0 THEN 1 ELSE 2 * Pow2(n - 1)

Min(a, b) == IF a <= b THEN a ELSE b

(***************************************************************************)
(* UploadQueueItem and its JSON form.                                      *)
(***************************************************************************)
NoItem == [status |-> "none", progress |-> Undefined, retryCount |-> 0,
           error |-> NoError, chunkIndex |-> 0]

\* addToQueue's object literal: no progress, no error
NewItem(chunk) == [status |-> "pending", progress |-> Undefined, retryCount |-> 0,
                   error |-> NoError, chunkIndex |-> chunk.chunkIndex]

\* JSON.stringify of one item: a key whose value is undefined is left out
ItemToJSON(id, it) ==
    LET keys == {"id", "status", "retryCount", "chunkIndex"}
                \cup (IF it.progress = Undefined THEN {} ELSE {"progress"})
                \cup (IF it.error = NoError THEN {} ELSE {"error"})
    IN [k \in keys |-> CASE k = "id" -> id
                         [] k = "status" -> it.status
                         [] k = "retryCount" -> it.retryCount
                         [] k = "chunkIndex" -> it.chunkIndex
                         [] k = "progress" -> it.progress
                         [] k = "error" -> it.error]

\* JSON.parse of one item: a key that is left out reads as undefined
ItemFromJSON(j) ==
    [status |-> j["status"],
     progress |-> IF "progress" \in DOMAIN j THEN j["progress"] ELSE Undefined,
     retryCount |-> j["retryCount"],
     error |-> IF "error" \in DOMAIN j THEN j["error"] ELSE NoError,
     chunkIndex |-> j["chunkIndex"]]

\* JSON.stringify(this.uploadQueue)
Stringify(s) == [i \in 1..Len(s.uploadQueue) |->
                    ItemToJSON(s.uploadQueue[i], s.item[s.uploadQueue[i]])]

\* saveQueueToStorage
SaveQueueToStorage(s) == [s EXCEPT !.stored = <<Stringify(s)>>]

(***************************************************************************)
(* notifyQueueUpdate (lines 270-272).  A subscriber is the closure that    *)
(* one onQueueUpdate call was given, numbered in the order of the calls.   *)
(* The callbacks of the app (settings.tsx:653-660) store what they are     *)
(* given and do not call back into the service.                            *)
(***************************************************************************)
Subs == 1..MaxSubscribers

\* callbacks: the array; made: the onQueueUpdate calls so far; last: what each
\* subscriber was handed last, <<>> before its first call and once it is gone;
\* fresh: the subscribers since whose onQueueUpdate call the queue has not changed;
\* gone: the subscribers whose unsubscribe was called or whose process died;
\* late: the subscribers that were called while in gone
NoSubscribers ==
    [callbacks |-> <<>>, made |-> 0, last |-> [c \in Subs |-> <<>>],
     fresh |-> {}, gone |-> {}, late |-> {}]

\* [...this.uploadQueue] (line 271) as a callback reads it during the call
Snapshot(s) ==
    [i \in 1..Len(s.uploadQueue) |->
        [id |-> s.uploadQueue[i], item |-> s.item[s.uploadQueue[i]]]]

Registered(s) == {s.obs.callbacks[i] : i \in 1..Len(s.obs.callbacks)}

\* this.callbacks.forEach(callback => callback([...this.uploadQueue]))
Notify(s) ==
    [s EXCEPT !.obs.last = [c \in Subs |-> IF c \in Registered(s) THEN <<Snapshot(s)>>
                                           ELSE @[c]],
              !.obs.late = @ \cup (Registered(s) \cap s.obs.gone)]

(***************************************************************************)
(* The service state as one record, so that a synchronous stretch of code  *)
(* is a composition of functions on it.                                    *)
(***************************************************************************)
Svc == [uploadQueue |-> uploadQueue, item |-> item, isProcessing |-> isProcessing,
        uploadPromises |-> uploadPromises, stored |-> stored, passes |-> passes,
        ops |-> ops, timers |-> timers, failCount |-> failCount, delays |-> delays,
        obs |-> obs, clears |-> clears, call |-> call]

\* the handler's result becomes the state (the result is computed once)
Commit(s) ==
    \E t \in {s} :
        /\ uploadQueue' = t.uploadQueue
        /\ item' = t.item
        /\ isProcessing' = t.isProcessing
        /\ uploadPromises' = t.uploadPromises
        /\ stored' = t.stored
        /\ passes' = t.passes
        /\ ops' = t.ops
        /\ timers' = t.timers
        /\ failCount' = t.failCount
        /\ delays' = t.delays
        /\ obs' = [t.obs EXCEPT !.fresh = IF Snapshot(t) = Snapshot(Svc) THEN @
                                          ELSE @ \ Registered(Svc)]
        /\ clears' = t.clears
        /\ call' = t.call

Alive == phase = "running"

Running(s, id) == {o \in s.ops : o.id = id}

(***************************************************************************)
(* performUpload, first stretch (lines 133-137): status, progress, save.   *)
(***************************************************************************)
PerformUploadBegin(s, id) ==
    LET s1 == [s EXCEPT !.item[id].status = "uploading", !.item[id].progress = 0]
        o == [id |-> id, pc |-> "save1", err |-> NoError,
              n |-> Cardinality(Running(s, id))]
    IN SaveQueueToStorage([s1 EXCEPT !.ops = @ \cup {o}])

\* uploadItem without the look-up in the in-flight map
UploadItemNoLookup(s, id) ==
    [PerformUploadBegin(s, id) EXCEPT !.uploadPromises = @ \cup {id}]

\* uploadItem (lines 117-123): single flight by id
UploadItem(s, id) ==
    IF id \in s.uploadPromises
    THEN s
    ELSE [PerformUploadBegin(s, id) EXCEPT !.uploadPromises = @ \cup {id}]

RECURSIVE StartBatch(_, _)
\* batch.map(item => this.uploadItem(item)) (line 106)
StartBatch(s, batch) ==
    IF batch = <<>> THEN s
    ELSE StartBatch(UploadItem(s, Head(batch)), Tail(batch))

RECURSIVE createBatchesOneMore(_, _)
\* batches that are one item longer than batchSize
createBatchesOneMore(items, batchSize) ==
    IF Len(items) = 0 THEN <<>>
    ELSE <<SubSeq(items, 1, Min(batchSize + 1, Len(items)))>>
         \o createBatchesOneMore(SubSeq(items, Min(batchSize + 1, Len(items)) + 1,
                                        Len(items)),
                                 batchSize)

RECURSIVE createBatches(_, _)
\* createBatches (lines 320-326)
createBatches(items, batchSize) ==
    IF Len(items) = 0 THEN <<>>
    ELSE <<SubSeq(items, 1, Min(batchSize, Len(items)))>>
         \o createBatches(SubSeq(items, Min(batchSize, Len(items)) + 1, Len(items)),
                          batchSize)

\* a filter that lets the failed items through as well
UnfinishedItems(s) ==
    SelectSeq(s.uploadQueue, LAMBDA id : s.item[id].status \in {"pending", "failed"})

\* this.uploadQueue.filter(item => item.status === 'pending') (line 94)
PendingItems(s) == SelectSeq(s.uploadQueue, LAMBDA id : s.item[id].status = "pending")

\* a pass that ends without resetting the flag
EndPassGuardKept(s, i) ==
    [s EXCEPT !.passes = SubSeq(@, 1, i - 1) \o SubSeq(@, i + 1, Len(@))]

\* the finally of processQueue (line 113) for pass number i
EndPass(s, i) ==
    [s EXCEPT !.isProcessing = FALSE,
              !.passes = SubSeq(@, 1, i - 1) \o SubSeq(@, i + 1, Len(@))]

\* the batch pass i awaits has settled: no upload of its ids is running
BatchSettled(s, i) ==
    /\ s.passes[i].pc = "batch"
    /\ \A k \in 1..Len(s.passes[i].batches[s.passes[i].k]) :
          Running(s, s.passes[i].batches[s.passes[i].k][k]) = {}

\* the for loop of processQueue (lines 104-108) resuming after Promise.allSettled
NextBatch(s, i) ==
    IF s.passes[i].k < Len(s.passes[i].batches)
    THEN StartBatch([s EXCEPT !.passes[i].k = @ + 1],
                    s.passes[i].batches[s.passes[i].k + 1])
    ELSE EndPass(s, i)

RECURSIVE ResumePasses(_)
\* after an upload settles, every pass whose batch has settled goes on; these are
\* promise continuations, they run before any other event
ResumePasses(s) ==
    IF \E i \in 1..Len(s.passes) : BatchSettled(s, i)
    THEN ResumePasses(NextBatch(s, CHOOSE i \in 1..Len(s.passes) : BatchSettled(s, i)))
    ELSE s


(***************************************************************************)
(* processQueue (lines 77-115).  SettingsService.getSettings() returns the *)
(* cached settings object (SettingsService.ts:51-56) and isConnectedToWifi *)
(* returns a constant, so neither await yields to another event: the call  *)
(* runs from the guard to the first batch's uploads in one step.           *)
(***************************************************************************)
\* isConnectedToWifi (lines 328-332) always answers true
IsConnectedToWifi == TRUE

\* lines 87-108 for the pass that was just appended
ProcessQueueBody(s) ==
    LET i == Len(s.passes) IN
    IF settings.wifiOnlyUpload /\ ~IsConnectedToWifi
    THEN EndPass(s, i)
    ELSE IF Len(PendingItems(s)) = 0
         THEN EndPass(s, i)
         ELSE LET batches == createBatches(PendingItems(s), MAX_CONCURRENT_UPLOADS)
              IN StartBatch([s EXCEPT !.passes[i] =
                                 [pc |-> "batch", batches |-> batches, k |-> 1]],
                            batches[1])

\* processQueue without the guard of lines 78-80
ProcessQueueNoGuard(s) ==
    ResumePasses(ProcessQueueBody(
        [s EXCEPT !.isProcessing = TRUE,
                  !.passes = Append(@, [pc |-> "settings", batches |-> <<>>,
                                        k |-> 0])]))

\* lines 78-82: the guard and the flag
ProcessQueue(s) ==
    IF s.isProcessing
    THEN s
    ELSE ResumePasses(ProcessQueueBody(
             [s EXCEPT !.isProcessing = TRUE,
                       !.passes = Append(@, [pc |-> "settings", batches |-> <<>>,
                                             k |-> 0])]))

(***************************************************************************)
(* performUpload (lines 132-205), one step per await on I/O.               *)
(***************************************************************************)
SetOp(s, o, pc, err) == [s EXCEPT !.ops = (@ \ {o}) \cup {[o EXCEPT !.pc = pc, !.err = err]}]

\* a delay whose exponent is the incremented retryCount itself
RetryDelayFromIncremented(retryCount) == RETRY_DELAY_BASE * Pow2(retryCount)

\* the delay of the retry that line 189 schedules, from the incremented retryCount
RetryDelay(retryCount) == RETRY_DELAY_BASE * Pow2(retryCount - 1)

\* a retry decision that is off by one
MayRetryOffByOne(retryCount, maxRetryAttempts) == retryCount <= maxRetryAttempts

\* line 183
MayRetry(retryCount, maxRetryAttempts) == retryCount < maxRetryAttempts

\* lines 178-202: the catch block's retry decision, then the finally's save
HandleFailure(s, o, err) ==
    LET id == o.id
        rc == s.item[id].retryCount
        s1 == IF MayRetry(rc, settings.maxRetryAttempts)
              THEN [s EXCEPT !.item[id].status = "pending",
                             !.item[id].retryCount = rc + 1,
                             !.item[id].error = err,
                             !.timers[id] = @ + 1,
                             !.delays[id] = Append(@, RetryDelay(rc + 1))]
              ELSE [s EXCEPT !.item[id].status = "failed",
                             !.item[id].error = err]
    IN SaveQueueToStorage(SetOp([s1 EXCEPT !.failCount[id] = @ + 1], o, "save2", err))

\* lines 138-159: the first save is done; notify; getInfoAsync answers; then either
\* the throw of line 143 or the transport is started.  The continuation of the save
\* only notifies, so the two awaits are one step, the file being looked up at its end
AfterGetInfo(s, o, exists) ==
    IF exists THEN SetOp(s, o, "upload", NoError)
    ELSE HandleFailure(s, o, "File no longer exists")

OpAfterSave1(o) ==
    /\ Alive
    /\ o \in ops /\ o.pc = "save1"
    /\ Commit(AfterGetInfo(Notify(Svc), o, o.id \in files))
    /\ UNCHANGED envVars
    /\ UNCHANGED <<stoVars, camVars>>

\* lines 155-158: a progress callback
OpProgress(o, p) ==
    /\ Alive
    /\ o \in ops /\ o.pc = "upload"
    /\ item[o.id].progress < p
    /\ Commit(Notify([Svc EXCEPT !.item[o.id].progress = p]))
    /\ UNCHANGED envVars
    /\ UNCHANGED <<stoVars, camVars>>

\* lines 161-163
MarkCompleted(s, id) ==
    [s EXCEPT !.item[id].status = "completed", !.item[id].progress = 100]

\* a deletion whose failure is taken for a failure of the upload
DeleteIssuedFatal(s, o, deleteOk) ==
    IF deleteOk THEN SetOp(MarkCompleted(s, o.id), o, "delete", NoError)
    ELSE HandleFailure(s, o, "delete")

\* lines 161-174: completed, then the deletion in a try of its own (166-174) whose
\* catch only logs
DeleteIssued(s, o, deleteOk) == SetOp(MarkCompleted(s, o.id), o, "delete", NoError)

\* lines 161-174 and 201-202: the transport resolved.  With deleteAfterUpload the
\* deletion is issued (it may fail, which is only logged); without it the finally
\* saves at once
OpUploadSucceeds(o, deleteOk) ==
    /\ Alive
    /\ o \in ops /\ o.pc = "upload"
    /\ IF settings.deleteAfterUpload
       THEN /\ Commit(DeleteIssued(Svc, o, deleteOk))
            /\ files' = IF deleteOk THEN files \ {o.id} ELSE files
       ELSE /\ deleteOk
            /\ Commit(SaveQueueToStorage(SetOp(MarkCompleted(Svc, o.id), o, "save2",
                                               NoError)))
            /\ files' = files
    /\ UNCHANGED <<settings, resumes, removes, phase, nextId, noops, budget>>
    /\ UNCHANGED <<stoVars, camVars>>

\* lines 176, 201-202: the deletion returned; the finally saves
OpAfterDelete(o) ==
    /\ Alive
    /\ o \in ops /\ o.pc = "delete"
    /\ Commit(SaveQueueToStorage(SetOp(Svc, o, "save2", NoError)))
    /\ UNCHANGED envVars
    /\ UNCHANGED <<stoVars, camVars>>

\* the transport rejected: the catch block of lines 178-200 and the finally's save
OpUploadFails(o) ==
    /\ Alive
    /\ o \in ops /\ o.pc = "upload"
    /\ Commit(HandleFailure(Svc, o, "transport"))
    /\ UNCHANGED envVars
    /\ UNCHANGED <<stoVars, camVars>>

\* uploadItem's finally (line 128)
ForgetPromise(s, id) == [s EXCEPT !.uploadPromises = @ \ {id}]

\* lines 203, 128: the last save is done; notify; the promise settles, the in-flight
\* entry goes, and the pass awaiting the batch resumes
OpSettle(o) ==
    /\ Alive
    /\ o \in ops /\ o.pc = "save2"
    /\ Commit(ResumePasses(ForgetPromise(Notify([Svc EXCEPT !.ops = @ \ {o}]), o.id)))
    /\ UNCHANGED envVars
    /\ UNCHANGED <<stoVars, camVars>>

(***************************************************************************)
(* The retry timer of lines 190-194.                                       *)
(***************************************************************************)
\* a timer callback that never restarts the queue
TimerBodyNoRestart(s, id) == s

\* lines 190-194: the callback looks at the item's status when it fires
TimerBody(s, id) ==
    IF s.item[id].status = "pending" THEN ProcessQueue(s) ELSE s

TimerFire(id) ==
    /\ Alive
    /\ timers[id] > 0
    /\ Commit(TimerBody([Svc EXCEPT !.timers[id] = @ - 1], id))
    /\ noops' = (noops \/ (item[id].status = "pending" /\ isProcessing))
    /\ UNCHANGED <<files, settings, resumes, removes, phase, nextId, budget>>
    /\ UNCHANGED <<stoVars, camVars>>

(***************************************************************************)
(* addToQueue (lines 49-75).                                               *)
(***************************************************************************)
\* a push whose save is left out
PushUnsaved(s, id, chunk) ==
    [s EXCEPT !.item[id] = NewItem(chunk),
              !.uploadQueue = Append(@, id),
              !.failCount[id] = 0,
              !.delays[id] = <<>>]

\* lines 50-66: build the item, push, save
Push(s, id, chunk) ==
    SaveQueueToStorage([s EXCEPT !.item[id] = NewItem(chunk),
                                 !.uploadQueue = Append(@, id),
                                 !.failCount[id] = 0,
                                 !.delays[id] = <<>>])

\* lines 67-72 and 218-222: after the save, notify and start a pass if none runs
KickIfIdle(s) == IF ~s.isProcessing THEN ProcessQueue(Notify(s)) ELSE Notify(s)

\* the recorder hands over a finished chunk whose file is on disk
AddToQueue ==
    /\ Alive
    /\ nextId <= budget.items
    /\ Commit(Push(Svc, nextId, [path |-> nextId, chunkIndex |-> nextId - 1]))
    /\ files' = files \cup {nextId}
    /\ nextId' = nextId + 1
    /\ resumes' = resumes + 1
    /\ UNCHANGED <<settings, removes, phase, noops, budget>>
    /\ UNCHANGED <<stoVars, camVars>>

AfterSaveKick ==
    /\ Alive
    /\ resumes > 0
    /\ resumes' = resumes - 1
    /\ Commit(KickIfIdle(Svc))
    /\ UNCHANGED <<files, settings, removes, phase, nextId, noops, budget>>
    /\ UNCHANGED <<stoVars, camVars>>

(***************************************************************************)
(* The background-fetch task (BackgroundService.ts:14-25).                 *)
(***************************************************************************)
BackgroundTask ==
    /\ Alive
    /\ Commit(ProcessQueue(Svc))
    /\ noops' = (noops \/ isProcessing)
    /\ UNCHANGED <<files, settings, resumes, removes, phase, nextId, budget>>
    /\ UNCHANGED <<stoVars, camVars>>

(***************************************************************************)
(* retryUpload (lines 207-223).                                            *)
(***************************************************************************)
InQueue(s, id) == \E i \in 1..Len(s.uploadQueue) : s.uploadQueue[i] = id

ResetForRetry(s, id) ==
    SaveQueueToStorage([s EXCEPT !.item[id].status = "pending",
                                 !.item[id].retryCount = 0,
                                 !.item[id].error = NoError,
                                 !.failCount[id] = 0,
                                 !.delays[id] = <<>>])

\* the n-th call of the user interface (settings.tsx:704, 719)
Called(s, op, id) == [s EXCEPT !.call = [op |-> op, id |-> id, n |-> @.n + 1]]

\* a guard that lets any item of the queue through
RetriableAnyStatus(s, id) == InQueue(s, id)

\* lines 208-211: find the item; only a failed one goes on
Retriable(s, id) == InQueue(s, id) /\ s.item[id].status = "failed"

\* lines 207-217: up to the await of the save; the continuation is AfterSaveKick
RetryUpload(id) ==
    /\ Alive
    /\ budget.retries > 0
    /\ budget' = [budget EXCEPT !.retries = @ - 1]
    /\ IF Retriable(Svc, id)
       THEN /\ Commit(ResetForRetry(Called(Svc, "retryUpload", id), id))
            /\ resumes' = resumes + 1
       ELSE /\ Commit(Called(Svc, "retryUpload", id))
            /\ resumes' = resumes
    /\ UNCHANGED <<files, settings, removes, phase, nextId, noops>>
    /\ UNCHANGED <<stoVars, camVars>>

(***************************************************************************)
(* removeFromQueue (lines 225-246) and clearCompleted (lines 248-252).     *)
(***************************************************************************)
\* findIndex (line 226), 0-based, -1 when absent
FindIndex(q, id) ==
    IF \E i \in 1..Len(q) : q[i] = id
    THEN (CHOOSE i \in 1..Len(q) : q[i] = id /\ \A j \in 1..(i - 1) : q[j] # id) - 1
    ELSE -1

\* a removal that always takes the last element
SpliceLast(q, index) == SubSeq(q, 1, Len(q) - 1)

\* Array.prototype.splice(index, 1) for index >= 0
Splice(q, index) ==
    IF index + 1 > Len(q) THEN q
    ELSE SubSeq(q, 1, index) \o SubSeq(q, index + 2, Len(q))

\* lines 226-235: find the index; an unknown id returns at once, else
\* getInfoAsync is asked about the item's file.  n numbers the call
RemoveFromQueue(id) ==
    /\ Alive
    /\ budget.removes > 0
    /\ budget' = [budget EXCEPT !.removes = @ - 1]
    /\ Commit(Called(Svc, "removeFromQueue", id))
    /\ removes' = IF FindIndex(uploadQueue, id) = -1 THEN removes
                  ELSE removes \cup {[id |-> id, index |-> FindIndex(uploadQueue, id),
                                      pc |-> "getInfo", exists |-> id \in files,
                                      deleteFailed |-> FALSE, n |-> call.n + 1]}
    /\ UNCHANGED <<files, settings, resumes, phase, nextId, noops>>
    /\ UNCHANGED <<stoVars, camVars>>

\* a splice whose save is left out
SpliceUnsaved(s, r) == [s EXCEPT !.uploadQueue = Splice(@, r.index)]

\* lines 243-244
SpliceAndSave(s, r) == SaveQueueToStorage([s EXCEPT !.uploadQueue = Splice(@, r.index)])

\* lines 236-244: delete the file if it exists (the deletion may fail), else splice
RemoveAfterGetInfo(r, deleteOk) ==
    /\ Alive
    /\ r \in removes /\ r.pc = "getInfo"
    /\ IF r.exists
       THEN /\ removes' = (removes \ {r})
                             \cup {[r EXCEPT !.pc = "delete", !.deleteFailed = ~deleteOk]}
            /\ files' = IF deleteOk THEN files \ {r.id} ELSE files
            /\ UNCHANGED svcVars
       ELSE /\ deleteOk
            /\ removes' = (removes \ {r}) \cup {[r EXCEPT !.pc = "save"]}
            /\ files' = files
            /\ Commit(SpliceAndSave(Svc, r))
    /\ UNCHANGED <<settings, resumes, phase, nextId, noops, budget>>
    /\ UNCHANGED <<stoVars, camVars>>

RemoveAfterDelete(r) ==
    /\ Alive
    /\ r \in removes /\ r.pc = "delete"
    /\ removes' = (removes \ {r}) \cup {[r EXCEPT !.pc = "save"]}
    /\ Commit(SpliceAndSave(Svc, r))
    /\ UNCHANGED <<files, settings, resumes, phase, nextId, noops, budget>>
    /\ UNCHANGED <<stoVars, camVars>>

\* line 245: notify, return
RemoveAfterSave(r) ==
    /\ Alive
    /\ r \in removes /\ r.pc = "save"
    /\ removes' = removes \ {r}
    /\ Commit(Notify(Svc))
    /\ UNCHANGED <<files, settings, resumes, phase, nextId, noops, budget>>
    /\ UNCHANGED <<stoVars, camVars>>

\* a filter that drops every item that is not in flight
FilterSettled(q, it) == SelectSeq(q, LAMBDA id : it[id].status = "uploading")

\* this.uploadQueue.filter(item => item.status !== 'completed') (line 249)
FilterCompleted(q, it) == SelectSeq(q, LAMBDA id : it[id].status # "completed")

\* lines 249-250: filter, then the save is issued
ClearCompleted ==
    /\ Alive
    /\ budget.clears > 0
    /\ budget' = [budget EXCEPT !.clears = @ - 1]
    /\ Commit(SaveQueueToStorage(
                  [Svc EXCEPT !.uploadQueue = FilterCompleted(uploadQueue, item),
                              !.clears = @ + 1]))
    /\ UNCHANGED <<files, settings, resumes, removes, phase, nextId, noops>>
    /\ UNCHANGED <<stoVars, camVars>>

\* line 251: the save returned; notify
ClearAfterSave ==
    /\ Alive
    /\ clears > 0
    /\ Commit(Notify([Svc EXCEPT !.clears = @ - 1]))
    /\ UNCHANGED envVars
    /\ UNCHANGED <<stoVars, camVars>>

(***************************************************************************)
(* onQueueUpdate (lines 258-268).                                          *)
(***************************************************************************)
\* this.callbacks.push(callback) for a new closure (line 259)
Subscribe ==
    /\ obs.made < MaxSubscribers
    /\ Commit([Svc EXCEPT !.obs.callbacks = Append(@, obs.made + 1),
                          !.obs.made = @ + 1,
                          !.obs.fresh = @ \cup {obs.made + 1}])
    /\ UNCHANGED envVars
    /\ UNCHANGED <<stoVars, camVars>>

\* a removal that always takes the first callback of the array
RemoveFirstCallback(callbacks, c) == Tail(callbacks)

\* lines 263-266: indexOf, then splice when found
RemoveCallback(callbacks, c) ==
    IF FindIndex(callbacks, c) > -1 THEN Splice(callbacks, FindIndex(callbacks, c))
    ELSE callbacks

\* the function that onQueueUpdate returned to subscriber c is called
Unsubscribe(c) ==
    /\ c \in Registered(Svc)
    /\ Commit([Svc EXCEPT !.obs.callbacks = RemoveCallback(@, c),
                          !.obs.last[c] = <<>>,
                          !.obs.fresh = @ \ {c},
                          !.obs.gone = @ \cup {c}])
    /\ UNCHANGED envVars
    /\ UNCHANGED <<stoVars, camVars>>

(***************************************************************************)
(* Process death and restart: initialize (lines 39-47),                    *)
(* loadQueueFromStorage (lines 282-302), resumePendingUploads (304-310).   *)
(***************************************************************************)
\* a load that keeps the persisted status
ResetUploadingSkipped(it) == it

\* lines 289-294
ResetUploading(it) ==
    IF it.status = "uploading" THEN [it EXCEPT !.status = "pending", !.progress = 0]
    ELSE it

\* lines 284-296; a null value leaves the (empty) queue as it is
LoadQueueFromStorage(s) ==
    IF s.stored = Null THEN s
    ELSE LET queue == s.stored[1]
         IN Notify([s EXCEPT
               !.uploadQueue = [i \in 1..Len(queue) |-> queue[i]["id"]],
               !.item = [id \in Ids |->
                           IF \E i \in 1..Len(queue) : queue[i]["id"] = id
                           THEN ResetUploading(ItemFromJSON(
                                    queue[CHOOSE i \in 1..Len(queue) : queue[i]["id"] = id]))
                           ELSE NoItem]])

\* an initialize that only loads
ResumeNothing(s) == s

\* lines 304-309
ResumePendingUploads(s) ==
    IF Len(PendingItems(s)) > 0 THEN ProcessQueue(s) ELSE s

\* initialize, first await
InitializeLoad ==
    /\ phase = "dead"
    /\ phase' = "loaded"
    /\ Commit(LoadQueueFromStorage(Svc))
    /\ UNCHANGED <<files, settings, resumes, removes, nextId, noops, budget>>
    /\ UNCHANGED <<stoVars, camVars>>

\* initialize, second await
InitializeResume ==
    /\ phase = "loaded"
    /\ phase' = "running"
    /\ Commit(ResumePendingUploads(Svc))
    /\ UNCHANGED <<files, settings, resumes, removes, nextId, noops, budget>>
    /\ UNCHANGED <<stoVars, camVars>>

(***************************************************************************)
(* StorageService: cleanupStorageIfNeeded (lines 157-175), cleanupStorage  *)
(* (177-206), deleteOldFiles (128-155), getLocalFiles (74-107).            *)
(* Sizes are counted in MiB and times in hours.  The code compares the     *)
(* integer currentSize with maxStorageBytes * 0.8; the model compares      *)
(* 10 * currentSize with 8 * maxStorageBytes, which is the same test.      *)
(***************************************************************************)
GB == 1024             \* 1024 * 1024 * 1024 bytes (line 161), in MiB
MAX_AGE_HOURS == 24    \* deleteOldFiles(24) (line 170)

\* the directory the storage service lists and cleans (line 22)
SURVEILLANCE_DIR == "surveillance_chunks/"

\* the directory the recorder moves its chunks into (CameraService.ts:166).  Its
\* definition, src/constants/paths, is not among the sources; as specified, the
\* recorder's permanent directory is the chunk directory of the file store
RECORDINGS_DIR == SURVEILLANCE_DIR

\* the path getLocalFiles gives a file (line 85)
LocalPath(f) == <<SURVEILLANCE_DIR, f.name>>

\* the filePath of queue item id: permanentUri (CameraService.ts:166), the chunk
\* file of item id being named id
FilePath(id) == <<RECORDINGS_DIR, id>>

RECURSIVE TotalSize(_)
\* files.reduce((sum, file) => sum + file.size, 0) (line 184; lines 48-49)
TotalSize(fs) == IF fs = <<>> THEN 0 ELSE Head(fs).size + TotalSize(Tail(fs))

\* the comparators of lines 100 and 182 say that a sorts after b
SortsAfter(a, b, newestFirst) ==
    IF newestFirst THEN b.createdAt - a.createdAt > 0 ELSE a.createdAt - b.createdAt > 0

RECURSIVE InsertBefore(_, _, _)
\* the place a stable sort gives f in the sorted list fs: behind every element
\* that does not sort after it
InsertBefore(f, fs, newestFirst) ==
    IF fs = <<>> THEN <<f>>
    ELSE IF SortsAfter(Head(fs), f, newestFirst) THEN <<f>> \o fs
         ELSE <<Head(fs)>> \o InsertBefore(f, Tail(fs), newestFirst)

RECURSIVE StableSort(_, _)
\* Array.prototype.sort, which is stable
StableSort(fs, newestFirst) ==
    IF fs = <<>> THEN <<>>
    ELSE InsertBefore(fs[Len(fs)], StableSort(SubSeq(fs, 1, Len(fs) - 1), newestFirst),
                      newestFirst)

\* files.sort((a, b) => b.createdAt - a.createdAt) (line 100)
NewestFirst(fs) == StableSort(fs, TRUE)

\* getLocalFiles (lines 74-107)
GetLocalFiles == NewestFirst(disk)

\* a cleanup that leaves the list in the order getLocalFiles gave it
KeepOrder(fs) == fs

\* files.sort((a, b) => a.createdAt - b.createdAt) (line 182)
OldestFirst(fs) == StableSort(fs, FALSE)

\* FileSystem.deleteAsync(file.path): the file leaves the directory
DeleteFile(d, name) == SelectSeq(d, LAMBDA f : f.name # name)

\* line 163
OverQuota(totalSize, maxStorageBytes) == totalSize > maxStorageBytes

\* line 187, with targetSize = maxStorageBytes * 0.8 (line 164)
AtTarget(currentSize, maxStorageBytes) == 10 * currentSize <= 8 * maxStorageBytes

IdleCleanup(now) ==
    [pc |-> "idle", list |-> <<>>, currentSize |-> 0, now |-> now,
     initial |-> <<>>, evicted |-> {}, aged |-> {}, deleteFailed |-> FALSE]

MaxStorageBytes == settings.maxLocalStorageGB * GB

\* lines 159-163: settings, getLocalStorageInfo, the quota test
CleanupStart ==
    /\ cleanup.pc = "idle"
    /\ cleanup' = [cleanup EXCEPT
                     !.initial = disk,
                     !.pc = IF OverQuota(TotalSize(GetLocalFiles), MaxStorageBytes)
                            THEN "list"
                            ELSE IF settings.autoDeleteOldFiles THEN "ageList" ELSE "done"]
    /\ UNCHANGED <<svcVars, envVars, disk, camVars>>

\* lines 179-184: getLocalFiles answered; sort oldest first and sum up
CleanupList ==
    /\ cleanup.pc = "list"
    /\ cleanup' = [cleanup EXCEPT !.pc = "quota",
                                  !.list = OldestFirst(GetLocalFiles),
                                  !.currentSize = TotalSize(GetLocalFiles)]
    /\ UNCHANGED <<svcVars, envVars, disk, camVars>>

\* a failed deletion that is counted as done
SkipFileSubtracted(c, file) ==
    [c EXCEPT !.list = Tail(@), !.currentSize = @ - file.size, !.deleteFailed = TRUE]

\* lines 194-196: deleteAsync rejected; the catch logs and the loop goes on
SkipFile(c, file) == [c EXCEPT !.list = Tail(@), !.deleteFailed = TRUE]

\* lines 186-198: one turn of the loop, up to the next deleteAsync; when the loop
\* ends, lines 168-170 go on to deleteOldFiles
CleanupQuotaStep(deleteOk) ==
    /\ cleanup.pc = "quota"
    /\ IF cleanup.list = <<>> \/ AtTarget(cleanup.currentSize, MaxStorageBytes)
       THEN /\ cleanup' = [cleanup EXCEPT
                             !.list = <<>>,
                             !.pc = IF settings.autoDeleteOldFiles THEN "ageList"
                                    ELSE "done"]
            /\ deleteOk
            /\ UNCHANGED disk
       ELSE LET file == Head(cleanup.list) IN
            IF deleteOk
            THEN /\ disk' = DeleteFile(disk, file.name)
                 /\ cleanup' = [cleanup EXCEPT
                                  !.list = Tail(@),
                                  !.currentSize = @ - file.size,
                                  !.evicted = @ \cup {file.name}]
            ELSE /\ cleanup' = SkipFile(cleanup, file)
                 /\ UNCHANGED disk
    /\ UNCHANGED <<svcVars, envVars, camVars>>

\* line 136
IsOld(file, now) == file.createdAt < now - MAX_AGE_HOURS

\* lines 130-131: getLocalFiles answered
CleanupAgeList ==
    /\ cleanup.pc = "ageList"
    /\ cleanup' = [cleanup EXCEPT !.pc = "age", !.list = GetLocalFiles]
    /\ UNCHANGED <<svcVars, envVars, disk, camVars>>

\* lines 135-144: the loop up to the next deleteAsync of an old file
CleanupAgeStep(deleteOk) ==
    /\ cleanup.pc = "age"
    /\ LET old == SelectSeq(cleanup.list, LAMBDA f : IsOld(f, cleanup.now)) IN
       IF old = <<>>
       THEN /\ cleanup' = [cleanup EXCEPT !.list = <<>>, !.pc = "done"]
            /\ deleteOk
            /\ UNCHANGED disk
       ELSE IF deleteOk
            THEN /\ disk' = DeleteFile(disk, Head(old).name)
                 /\ cleanup' = [cleanup EXCEPT !.list = Tail(old),
                                               !.aged = @ \cup {Head(old).name}]
            ELSE /\ cleanup' = [cleanup EXCEPT !.list = Tail(old),
                                               !.deleteFailed = TRUE]
                 /\ UNCHANGED disk
    /\ UNCHANGED <<svcVars, envVars, camVars>>

(***************************************************************************)
(* CameraService (CameraService.ts).  A call is one entry of camOps:       *)
(* kind "start" (startRecording), "rotate" (completeCurrentChunk, the      *)
(* chunk timer's callback) or "stop" (stopRecording), suspended at         *)
(*   "mkdir"    startNextChunk awaiting makeDirectoryAsync (line 97),      *)
(*   "finalize" stopCurrentChunk awaiting the recording, the move, the     *)
(*              size check and the gallery save (lines 157-187),           *)
(*   "enqueue"  stopCurrentChunk awaiting UploadService.addToQueue (199).  *)
(* getSettings and the cached device id do not wait on I/O.                *)
(* currentRecordingPromise is 0 for null, else the number of the take      *)
(* (recordAsync call) it belongs to, counted from 1; a file name is <<>>   *)
(* for null, else <<the chunk index it was generated from>>.               *)
(***************************************************************************)
NoCamera(starts, rotations, stops) ==
    [isRecording |-> FALSE, currentRecordingPromise |-> 0, chunkTimer |-> FALSE,
     strayTimers |-> 0, currentChunkIndex |-> 0, currentChunkFileName |-> <<>>,
     config |-> FALSE,
     \* history
     takes |-> 0, rotations |-> 0, calls |-> 0, stopCalls |-> 0, failed |-> FALSE,
     rejected |-> FALSE,
     \* chunks: what was handed to addToQueue, in order: the take it was recorded
     \* in, the chunkIndex it carries and the file name it was moved to
     chunks |-> <<>>,
     \* recording: the takes that recordAsync started and that no stopCurrentChunk
     \* has captured and stopped
     recording |-> {},
     \* lastEnd: how the last stopCurrentChunk call got through lines 160-189
     lastEnd |-> [take |-> 0, outcome |-> "none", passed |-> <<>>, threw |-> FALSE],
     \* reports: calls of config.onError; returns: stopRecording calls that returned
     \* without throwing; screen: the screen whose handlers are in config
     reports |-> 0, returns |-> 0, screen |-> "index",
     \* remaining environment events
     left |-> [starts |-> starts, rotations |-> rotations, stops |-> stops]]

\* an index that stays the same from chunk to chunk
SameChunkIndex(index) == index

\* this.currentChunkIndex++ (line 137)
NextChunkIndex(index) == index + 1

\* a new call, suspended at pc; take: the recording that stopCurrentChunk captured
\* at line 151 (0 for a call that is not in stopCurrentChunk)
CamCall(c, kind, pc, file) ==
    [kind |-> kind, pc |-> pc, file |-> file, n |-> c.calls + 1,
     take |-> IF pc = "finalize" THEN c.currentRecordingPromise ELSE 0]

\* startNextChunk up to its first await on I/O (lines 89-97): the guard, the
\* settings, the file name from the current index
StartNextChunk(c, kind) ==
    IF ~c.isRecording \/ ~c.config
    THEN [cam |-> c, calls |-> {}]
    ELSE [cam |-> [c EXCEPT !.calls = @ + 1],
          calls |-> {CamCall(c, kind, "mkdir", <<c.currentChunkIndex>>)}]

\* a stopCurrentChunk that leaves this.currentRecordingPromise in place
StopCurrentChunkKeepsTake(c, kind) ==
    [cam |-> [c EXCEPT !.currentChunkFileName = <<>>,
                       !.recording = @ \ {c.currentRecordingPromise},
                       !.calls = @ + 1],
     calls |-> {CamCall(c, kind, "finalize", c.currentChunkFileName)}]

\* stopCurrentChunk up to its first await (lines 145-158): capture and clear
\* the take, ask the camera to stop
StopCurrentChunk(c, kind) ==
    [cam |-> [c EXCEPT !.currentRecordingPromise = 0,
                       !.currentChunkFileName = <<>>,
                       !.recording = @ \ {c.currentRecordingPromise},
                       !.calls = @ + 1],
     calls |-> {CamCall(c, kind, "finalize", c.currentChunkFileName)}]

\* completeCurrentChunk after stopCurrentChunk returned (lines 135-139)
AfterStopCurrentChunk(c) ==
    IF c.isRecording
    THEN StartNextChunk([c EXCEPT !.currentChunkIndex = NextChunkIndex(@)], "rotate")
    ELSE [cam |-> c, calls |-> {}]

\* stopRecording after stopCurrentChunk returned (lines 76-79)
ResetSession(c) ==
    [c EXCEPT !.config = FALSE, !.currentChunkIndex = 0, !.currentChunkFileName = <<>>]

\* stopRecording (lines 58-87) up to the await in stopCurrentChunk; without a take
\* in progress, or without a config (stopCurrentChunk returns at line 146), it
\* runs to its end
StopNow(c0) ==
    LET c == [c0 EXCEPT !.stopCalls = @ + 1] IN
    IF ~c.isRecording
    THEN [cam |-> [c EXCEPT !.returns = @ + 1], calls |-> {}]
    ELSE LET c1 == [c EXCEPT !.isRecording = FALSE, !.chunkTimer = FALSE]
         IN IF c1.currentRecordingPromise = 0 \/ ~c1.config
            THEN [cam |-> [ResetSession(c1) EXCEPT !.returns = @ + 1], calls |-> {}]
            ELSE StopCurrentChunk(c1, "stop")

\* config.onError as the screens pass it: handleRecordingError of index.tsx
\* (lines 169-173) changes the screen only, the one of the source file part_003
\* (lines 101-107) calls CameraService.stopRecording as well
OnError(c) ==
    IF c.screen = "part_003"
    THEN StopNow([c EXCEPT !.reports = @ + 1])
    ELSE [cam |-> [c EXCEPT !.reports = @ + 1], calls |-> {}]

\* this.config?.onError(...) (line 122) and this.config.onError(...) (line 141,
\* which throws on a null config)
ReportError(c) == IF c.config THEN OnError(c) ELSE [cam |-> c, calls |-> {}]

\* startRecording (lines 36-56) up to the await in startNextChunk
StartRecording ==
    /\ Alive
    /\ cam.left.starts > 0
    /\ LET c == [cam EXCEPT !.left.starts = @ - 1] IN
       IF c.isRecording
       THEN /\ cam' = [c EXCEPT !.rejected = TRUE]
            /\ UNCHANGED camOps
       ELSE LET r == StartNextChunk([c EXCEPT !.config = TRUE,
                                              !.isRecording = TRUE,
                                              !.currentChunkIndex = 0,
                                              !.currentChunkFileName = <<>>],
                                    "start")
            IN /\ cam' = r.cam
               /\ camOps' = camOps \cup r.calls
    /\ UNCHANGED <<svcVars, envVars, stoVars>>

\* startNextChunk after makeDirectoryAsync (lines 97-123).  outcome "mkdir": the
\* directory call throws; "record": recordAsync throws; a null config makes line
\* 109 throw as well.  The catch reports the error and the call returns.
CamStartChunk(a, outcome) ==
    /\ Alive
    /\ a \in camOps /\ a.pc = "mkdir"
    /\ LET r == IF outcome = "mkdir"
                THEN ReportError([cam EXCEPT !.failed = TRUE])
                ELSE IF outcome = "record" \/ ~cam.config
                     THEN ReportError([cam EXCEPT !.currentChunkFileName = a.file,
                                                  !.failed = TRUE])
                     ELSE [cam |-> [cam EXCEPT
                                      !.currentChunkFileName = a.file,
                                      !.currentRecordingPromise = cam.takes + 1,
                                      !.takes = @ + 1,
                                      !.recording = @ \cup {cam.takes + 1},
                                      !.strayTimers = IF cam.chunkTimer THEN @ + 1 ELSE @,
                                      !.chunkTimer = TRUE],
                           calls |-> {}]
       IN /\ cam' = r.cam
          /\ camOps' = (camOps \ {a}) \cup r.calls
    /\ UNCHANGED <<svcVars, envVars, stoVars>>

\* the chunk timer fires: completeCurrentChunk (lines 126-143) up to its first
\* await on I/O.  stray: the timer is one that this.chunkTimer no longer holds.
ChunkTimerFire(stray) ==
    /\ Alive
    /\ cam.left.rotations > 0
    /\ IF stray THEN cam.strayTimers > 0 ELSE cam.chunkTimer
    /\ LET c == [cam EXCEPT !.left.rotations = @ - 1,
                            !.rotations = @ + 1,
                            !.strayTimers = IF stray THEN @ - 1 ELSE @,
                            !.chunkTimer = IF stray THEN @ ELSE FALSE]
           r == IF ~c.isRecording \/ ~c.config
                THEN [cam |-> c, calls |-> {}]
                ELSE IF c.currentRecordingPromise = 0
                     THEN AfterStopCurrentChunk(c)
                     ELSE StopCurrentChunk(c, "rotate")
       IN /\ cam' = r.cam
          /\ camOps' = camOps \cup r.calls
    /\ UNCHANGED <<svcVars, envVars, stoVars>>

\* what the I/O of stopCurrentChunk may do: "noOutput" the recording resolves
\* without a uri, "move" makeDirectoryAsync or moveAsync throws, "check" the moved
\* file does not exist or has size 0, "gallery" the permission query or
\* createAssetAsync throws, "ok" nothing goes wrong
FinalizeOutcomes == {"ok", "noOutput", "move", "check", "gallery"}

\* a finalization that takes a failed size check as it takes a failed gallery save
FinalizationUnchecked(outcome, file) ==
    IF outcome = "noOutput" \/ file = <<>>
    THEN [passed |-> <<>>, threw |-> TRUE]
    ELSE IF outcome = "move"
         THEN [passed |-> <<"result">>, threw |-> TRUE]
         ELSE IF outcome = "check"
              THEN [passed |-> <<"result", "move">>, threw |-> FALSE]
              ELSE IF outcome = "gallery"
                   THEN [passed |-> <<"result", "move", "check">>, threw |-> FALSE]
                   ELSE [passed |-> <<"result", "move", "check", "gallery">>,
                         threw |-> FALSE]

\* lines 160-189: the steps passed before the chunk is built, and whether one of
\* them threw (lines 163, 167-171, 177); the gallery save is in a try of its own
Finalization(outcome, file) ==
    IF outcome = "noOutput" \/ file = <<>>
    THEN [passed |-> <<>>, threw |-> TRUE]
    ELSE IF outcome = "move"
         THEN [passed |-> <<"result">>, threw |-> TRUE]
         ELSE IF outcome = "check"
              THEN [passed |-> <<"result", "move">>, threw |-> TRUE]
              ELSE IF outcome = "gallery"
                   THEN [passed |-> <<"result", "move", "check">>, threw |-> FALSE]
                   ELSE [passed |-> <<"result", "move", "check", "gallery">>,
                         threw |-> FALSE]

\* the ghost of a stopCurrentChunk call that got through lines 160-189
Ended(c, a, outcome) ==
    [c EXCEPT !.lastEnd = [take |-> a.take, outcome |-> outcome,
                           passed |-> Finalization(outcome, a.file).passed,
                           threw |-> Finalization(outcome, a.file).threw]]

\* stopCurrentChunk from the recording's result to the call of addToQueue (lines
\* 158-199): the result, the move, the size check and the gallery save are file
\* I/O; then the chunk is built from the index as it is now and pushed.  A throw
\* ends the call: completeCurrentChunk reports it, stopRecording rethrows it.
CamFinalize(a, outcome) ==
    /\ Alive
    /\ a \in camOps /\ a.pc = "finalize"
    /\ IF ~Finalization(outcome, a.file).threw
       THEN /\ nextId <= IdLimit
            /\ Commit(Push(Svc, nextId,
                           [path |-> nextId, chunkIndex |-> cam.currentChunkIndex]))
            /\ files' = files \cup {nextId}
            /\ nextId' = nextId + 1
            /\ camOps' = (camOps \ {a}) \cup {[a EXCEPT !.pc = "enqueue"]}
            /\ cam' = [Ended(cam, a, outcome) EXCEPT !.chunks =
                          Append(@, [take |-> a.take,
                                     chunkIndex |-> cam.currentChunkIndex,
                                     file |-> a.file])]
       ELSE /\ LET c == Ended(cam, a, outcome)
                   r == IF a.kind = "stop"
                        THEN [cam |-> [c EXCEPT !.failed = TRUE], calls |-> {}]
                        ELSE ReportError([c EXCEPT !.failed = TRUE])
               IN /\ cam' = r.cam
                  /\ camOps' = (camOps \ {a}) \cup r.calls
            /\ UNCHANGED <<svcVars, files, nextId>>
    /\ UNCHANGED <<settings, resumes, removes, phase, noops, budget, stoVars>>

\* addToQueue's save returned (UploadService.ts:67-72), then lines 200-202 and
\* the caller's continuation.  With a null config line 200 throws.
CamAddReturns(a) ==
    /\ Alive
    /\ a \in camOps /\ a.pc = "enqueue"
    /\ Commit(KickIfIdle(Svc))
    /\ LET r == IF ~cam.config
                THEN [cam |-> [cam EXCEPT !.failed = TRUE], calls |-> {}]
                ELSE IF a.kind = "stop"
                     THEN [cam |-> [ResetSession(cam) EXCEPT !.returns = @ + 1],
                           calls |-> {}]
                     ELSE AfterStopCurrentChunk(cam)
       IN /\ cam' = r.cam
          /\ camOps' = (camOps \ {a}) \cup r.calls
    /\ UNCHANGED <<envVars, stoVars>>

\* the user stops the recording
StopRecording ==
    /\ Alive
    /\ cam.left.stops > 0
    /\ LET r == StopNow([cam EXCEPT !.left.stops = @ - 1])
       IN /\ cam' = r.cam
          /\ camOps' = camOps \cup r.calls
    /\ UNCHANGED <<svcVars, envVars, stoVars>>

(***************************************************************************)
(* Process death.                                                          *)
(***************************************************************************)
\* the operating system kills the process: memory is lost, storage and files stay
Crash ==
    /\ Alive
    /\ budget.crashes > 0
    /\ budget' = [budget EXCEPT !.crashes = @ - 1]
    /\ phase' = "dead"
    /\ uploadQueue' = <<>>
    /\ item' = [id \in Ids |-> NoItem]
    /\ isProcessing' = FALSE
    /\ uploadPromises' = {}
    /\ passes' = <<>>
    /\ ops' = {}
    /\ timers' = [id \in Ids |-> 0]
    /\ resumes' = 0
    /\ removes' = {}
    /\ failCount' = [id \in Ids |-> 0]
    /\ delays' = [id \in Ids |-> <<>>]
    /\ noops' = FALSE
    /\ obs' = [obs EXCEPT !.callbacks = <<>>, !.last = [c \in Subs |-> <<>>],
                          !.fresh = {}, !.gone = @ \cup Registered(Svc)]
    /\ clears' = 0
    /\ call' = call
    /\ cam' = NoCamera(cam.left.starts, cam.left.rotations, cam.left.stops)
    /\ camOps' = {}
    /\ cleanup' = IdleCleanup(cleanup.now)
    /\ UNCHANGED <<stored, files, settings, nextId, disk>>

(***************************************************************************)
(* Specifications.                                                         *)
(***************************************************************************)
Progress == {50}

EmptyService ==
    /\ uploadQueue = <<>>
    /\ item = [id \in Ids |-> NoItem]
    /\ isProcessing = FALSE
    /\ uploadPromises = {}
    /\ passes = <<>>
    /\ ops = {}
    /\ timers = [id \in Ids |-> 0]
    /\ resumes = 0
    /\ removes = {}
    /\ failCount = [id \in Ids |-> 0]
    /\ delays = [id \in Ids |-> <<>>]
    /\ noops = FALSE
    /\ nextId = 1
    /\ obs = NoSubscribers
    /\ clears = 0
    /\ call = [op |-> "none", id |-> 0, n |-> 0]

Budget(items, retries, removes_, clears_, crashes) ==
    [items |-> items, retries |-> retries, removes |-> removes_, clears |-> clears_,
     crashes |-> crashes]

\* SettingsService.ts:28-39; maxLocalStorageGB and autoDeleteOldFiles at their defaults
Settings(retrySet, deleteSet) ==
    [maxRetryAttempts : retrySet, deleteAfterUpload : deleteSet, wifiOnlyUpload : {FALSE},
     maxLocalStorageGB : {2}, autoDeleteOldFiles : {TRUE}]

\* no file in the chunk directory, no cleanup running
IdleStorage ==
    /\ disk = <<>>
    /\ cleanup = IdleCleanup(0)

\* the recorder as constructed, never started
IdleCamera ==
    /\ cam = NoCamera(0, 0, 0)
    /\ camOps = {}

\* the steps of the queue's own activations
UploadStep ==
    \/ \E o \in ops : OpAfterSave1(o)
    \/ \E o \in ops : OpAfterDelete(o)
    \/ \E o \in ops : OpSettle(o)
    \/ AfterSaveKick

\* ---- Spec: the queue within one run of the process, first launch done
Init ==
    /\ EmptyService
    /\ IdleStorage
    /\ IdleCamera
    /\ stored = Null
    /\ files = {}
    /\ phase = "running"
    /\ settings \in Settings(0..MaxRetry, BOOLEAN)
    /\ budget = Budget(MaxItems, 0, 0, 0, 0)

Next ==
    \/ UploadStep
    \/ \E o \in ops, ok \in BOOLEAN : OpUploadSucceeds(o, ok)
    \/ \E o \in ops : OpUploadFails(o)
    \/ \E id \in Ids : TimerFire(id)
    \/ AddToQueue
    \/ BackgroundTask

Spec == Init /\ [][Next]_vars

\* ---- SpecRetry: automatic and manual retries of a few items
InitRetry ==
    /\ EmptyService
    /\ IdleStorage
    /\ IdleCamera
    /\ stored = Null
    /\ files = {}
    /\ phase = "running"
    /\ settings \in Settings(0..MaxRetryAttempts, {TRUE})
    /\ budget = Budget(MaxRetryItems, MaxManualRetries, 0, 0, 0)

NextRetry ==
    \/ UploadStep
    \/ \E o \in ops, ok \in BOOLEAN : OpUploadSucceeds(o, ok)
    \/ \E o \in ops : OpUploadFails(o)
    \/ \E id \in Ids : TimerFire(id)
    \/ AddToQueue
    \/ \E id \in Ids : RetryUpload(id)

SpecRetry == InitRetry /\ [][NextRetry]_vars

\* ---- SpecSucceed: chunks are enqueued at any moment, the transport always succeeds,
\* and nothing but addToQueue triggers the queue
InitSucceed ==
    /\ EmptyService
    /\ IdleStorage
    /\ IdleCamera
    /\ stored = Null
    /\ files = {}
    /\ phase = "running"
    /\ settings \in Settings({MaxRetry}, BOOLEAN)
    /\ budget = Budget(MaxSucceedItems, 0, 0, 0, 0)

NextSucceed ==
    \/ UploadStep
    \/ \E o \in ops, ok \in BOOLEAN : OpUploadSucceeds(o, ok)
    \/ AddToQueue

SpecSucceed == InitSucceed /\ [][NextSucceed]_vars

\* ---- SpecFail: one chunk is enqueued and the transport always fails.  The retry
\* delay is at least RETRY_DELAY_BASE = 5 s, and the timer is set right before the
\* failed attempt's last save: the timer is taken to fire after that save returned.
TimerFireAfterSave(id) ==
    /\ Running(Svc, id) = {}
    /\ TimerFire(id)

InitFail ==
    /\ EmptyService
    /\ IdleStorage
    /\ IdleCamera
    /\ stored = Null
    /\ files = {}
    /\ phase = "running"
    /\ settings \in Settings(0..MaxFailRetry, {TRUE})
    /\ budget = Budget(1, 0, 0, 0, 0)

\* the steps the event loop takes by itself, and the enqueue of the scenario
FailProgress ==
    \/ \E o \in ops : OpAfterSave1(o)
    \/ \E o \in ops, p \in Progress : OpProgress(o, p)
    \/ \E o \in ops : OpUploadFails(o)
    \/ \E o \in ops : OpSettle(o)
    \/ AfterSaveKick
    \/ \E id \in Ids : TimerFireAfterSave(id)
    \/ AddToQueue

NextFail ==
    \/ FailProgress
    \/ BackgroundTask

\* the event loop runs every continuation and timer that is ready; the background
\* task may run at any time, or never
SpecFail == InitFail /\ [][NextFail]_vars /\ WF_vars(FailProgress)

\* ---- SpecRestart: the process is killed at any moment and started again
InitRestart ==
    /\ EmptyService
    /\ IdleStorage
    /\ IdleCamera
    /\ stored = Null
    /\ files = {}
    /\ phase = "dead"
    /\ settings \in Settings({1}, {TRUE})
    /\ budget = Budget(MaxRestartItems, 0, 0, 0, MaxCrashes)

NextRestart ==
    \/ InitializeLoad
    \/ InitializeResume
    \/ Crash
    \/ UploadStep
    \/ \E o \in ops, ok \in BOOLEAN : OpUploadSucceeds(o, ok)
    \/ \E o \in ops : OpUploadFails(o)
    \/ \E id \in Ids : TimerFire(id)
    \/ AddToQueue

SpecRestart == InitRestart /\ [][NextRestart]_vars

\* ---- SpecBatch: the process starts on a persisted queue of pending chunks
PendingSnapshot(n) ==
    [i \in 1..n |-> ItemToJSON(i, NewItem([path |-> i, chunkIndex |-> i - 1]))]

InitBatch ==
    /\ EmptyService
    /\ IdleStorage
    /\ IdleCamera
    /\ \E n \in 0..MaxBatchItems :
          /\ stored = <<PendingSnapshot(n)>>
          /\ files = 1..n
    /\ phase = "dead"
    /\ settings \in Settings({0}, BOOLEAN)
    /\ budget = Budget(0, 0, 0, 0, 0)

NextBatchStep ==
    \/ InitializeLoad
    \/ InitializeResume
    \/ \E o \in ops : OpAfterSave1(o)
    \/ \E o \in ops, ok \in BOOLEAN : OpUploadSucceeds(o, ok)
    \/ \E o \in ops : OpAfterDelete(o)
    \/ \E o \in ops : OpUploadFails(o)
    \/ \E o \in ops : OpSettle(o)
    \/ BackgroundTask

SpecBatch == InitBatch /\ [][NextBatchStep]_vars

\* ---- SpecStorage: cleanupStorageIfNeeded runs once on a directory of files
FileShapes == [size : Sizes, createdAt : Times]

\* every directory of n files, in every directory order
Directories(n) ==
    {[i \in 1..n |-> [name |-> i, size |-> shape[i].size,
                      createdAt |-> shape[i].createdAt]] : shape \in [1..n -> FileShapes]}

\* n files of 150 MiB written one after the other
UniformDirectory(n) == [i \in 1..n |-> [name |-> i, size |-> 150, createdAt |-> i]]

InitStorage ==
    /\ EmptyService
    /\ IdleCamera
    /\ stored = Null
    /\ files = {}
    /\ phase = "running"
    /\ budget = Budget(0, 0, 0, 0, 0)
    /\ \E q \in Quotas, auto \in BOOLEAN :
          settings \in {[s EXCEPT !.maxLocalStorageGB = q, !.autoDeleteOldFiles = auto] :
                          s \in Settings({3}, {TRUE})}
    /\ \/ \E n \in 0..MaxFiles : disk \in Directories(n)
       \/ \E n \in 0..MaxUniformFiles : disk = UniformDirectory(n)
    /\ \E now \in Clock : cleanup = IdleCleanup(now)

NextStorage ==
    \/ CleanupStart
    \/ CleanupList
    \/ \E ok \in BOOLEAN : CleanupQuotaStep(ok)
    \/ CleanupAgeList
    \/ \E ok \in BOOLEAN : CleanupAgeStep(ok)

SpecStorage == InitStorage /\ [][NextStorage]_vars

\* ---- SpecCamera: one recording session with its chunk rotations; the queue
\* uploads what the recorder hands over
InitCamera ==
    /\ EmptyService
    /\ IdleStorage
    /\ stored = Null
    /\ files = {}
    /\ phase = "running"
    /\ budget = Budget(0, 0, 0, 0, 0)
    /\ settings \in Settings({0}, {TRUE})
    /\ cam = NoCamera(1, MaxRotations, MaxStops)
    /\ camOps = {}

NextCamera ==
    \/ StartRecording
    \/ \E a \in camOps, outcome \in {"ok", "mkdir", "record"} : CamStartChunk(a, outcome)
    \/ \E stray \in BOOLEAN : ChunkTimerFire(stray)
    \/ \E a \in camOps, outcome \in FinalizeOutcomes : CamFinalize(a, outcome)
    \/ \E a \in camOps : CamAddReturns(a)
    \/ StopRecording
    \/ \E o \in ops : OpAfterSave1(o)
    \/ \E o \in ops, ok \in BOOLEAN : OpUploadSucceeds(o, ok)
    \/ \E o \in ops : OpAfterDelete(o)
    \/ \E o \in ops : OpSettle(o)

SpecCamera == InitCamera /\ [][NextCamera]_vars


\* ---- SpecRemove: items in every status are removed by the user, one
\* removeFromQueue call at a time; ids that were never enqueued or are already
\* removed are asked for as well.  No automatic retry, so a failure gives `failed`
InitRemove ==
    /\ EmptyService
    /\ IdleStorage
    /\ IdleCamera
    /\ stored = Null
    /\ files = {}
    /\ phase = "running"
    /\ settings \in Settings({0}, BOOLEAN)
    /\ budget = Budget(MaxRemoveItems, 0, MaxRemoves, 0, 0)

RemoveOneAtATime ==
    /\ removes = {}
    /\ \E id \in 1..(MaxRemoveItems + 1) : RemoveFromQueue(id)

RemoveStep ==
    \/ \E r \in removes, ok \in BOOLEAN : RemoveAfterGetInfo(r, ok)
    \/ \E r \in removes : RemoveAfterDelete(r)
    \/ \E r \in removes : RemoveAfterSave(r)

NextRemove ==
    \/ UploadStep
    \/ \E o \in ops, ok \in BOOLEAN : OpUploadSucceeds(o, ok)
    \/ \E o \in ops : OpUploadFails(o)
    \/ AddToQueue
    \/ RemoveOneAtATime
    \/ RemoveStep

SpecRemove == InitRemove /\ [][NextRemove]_vars


\* ---- SpecSession: the user starts and stops recordings at any moment, under
\* either screen's error handler
Screens == {"index", "part_003"}

InitSession ==
    /\ EmptyService
    /\ IdleStorage
    /\ stored = Null
    /\ files = {}
    /\ phase = "running"
    /\ budget = Budget(0, 0, 0, 0, 0)
    /\ settings \in Settings({0}, {TRUE})
    /\ \E screen \in Screens :
          cam = [NoCamera(MaxStarts, MaxSessionRotations, MaxSessionStops)
                    EXCEPT !.screen = screen]
    /\ camOps = {}

NextSession ==
    \/ StartRecording
    \/ \E a \in camOps, outcome \in {"ok", "mkdir", "record"} : CamStartChunk(a, outcome)
    \/ \E stray \in BOOLEAN : ChunkTimerFire(stray)
    \/ \E a \in camOps, outcome \in FinalizeOutcomes : CamFinalize(a, outcome)
    \/ \E a \in camOps : CamAddReturns(a)
    \/ StopRecording
    \/ \E o \in ops : OpAfterSave1(o)
    \/ \E o \in ops, ok \in BOOLEAN : OpUploadSucceeds(o, ok)
    \/ \E o \in ops : OpAfterDelete(o)
    \/ \E o \in ops : OpSettle(o)

SpecSession == InitSession /\ [][NextSession]_vars


\* ---- SpecObserve: screens subscribe and unsubscribe at any moment while the
\* queue is used in every way: one chunk is added, uploaded or failed (no
\* automatic retry, the file is kept), retried, removed and cleared by the user
\* (one call of each), and the process is killed once and started again
InitObserve ==
    /\ EmptyService
    /\ IdleStorage
    /\ IdleCamera
    /\ stored = Null
    /\ files = {}
    /\ phase = "running"
    /\ settings \in Settings({0}, {FALSE})
    /\ budget = Budget(1, 1, 1, 1, 1)

NextObserve ==
    \/ Subscribe
    \/ \E c \in Subs : Unsubscribe(c)
    \/ AddToQueue
    \/ AfterSaveKick
    \/ \E o \in ops : OpAfterSave1(o)
    \/ \E o \in ops, p \in Progress : OpProgress(o, p)
    \/ \E o \in ops : OpUploadSucceeds(o, TRUE)
    \/ \E o \in ops : OpUploadFails(o)
    \/ \E o \in ops : OpSettle(o)
    \/ \E id \in {1, 2} : RetryUpload(id)
    \/ RemoveOneAtATime
    \/ RemoveStep
    \/ ClearCompleted
    \/ ClearAfterSave
    \/ Crash
    \/ InitializeLoad
    \/ InitializeResume

SpecObserve == InitObserve /\ [][NextObserve]_vars


\* ---- SpecAdd: chunks are handed over at any moment while earlier ones are
\* uploaded, fail and are retried by their timers; one screen is subscribed
OneSubscriber ==
    [NoSubscribers EXCEPT !.callbacks = <<1>>, !.made = 1, !.fresh = {1}]

InitAdd ==
    /\ uploadQueue = <<>>
    /\ item = [id \in Ids |-> NoItem]
    /\ isProcessing = FALSE
    /\ uploadPromises = {}
    /\ passes = <<>>
    /\ ops = {}
    /\ timers = [id \in Ids |-> 0]
    /\ resumes = 0
    /\ removes = {}
    /\ failCount = [id \in Ids |-> 0]
    /\ delays = [id \in Ids |-> <<>>]
    /\ noops = FALSE
    /\ nextId = 1
    /\ obs = OneSubscriber
    /\ clears = 0
    /\ call = [op |-> "none", id |-> 0, n |-> 0]
    /\ IdleStorage
    /\ IdleCamera
    /\ stored = Null
    /\ files = {}
    /\ phase = "running"
    /\ settings \in Settings({0, 1}, BOOLEAN)
    /\ budget = Budget(MaxAddItems, 0, 0, 0, 0)

NextAdd ==
    \/ AddToQueue
    \/ UploadStep
    \/ \E o \in ops, ok \in BOOLEAN : OpUploadSucceeds(o, ok)
    \/ \E o \in ops : OpUploadFails(o)
    \/ \E id \in Ids : TimerFire(id)

SpecAdd == InitAdd /\ [][NextAdd]_vars


\* ---- SpecClear: the user clears the completed items once, at any moment, while
\* chunks are added and uploaded; a failed upload is final (no automatic retry)
InitClear ==
    /\ EmptyService
    /\ IdleStorage
    /\ IdleCamera
    /\ stored = Null
    /\ files = {}
    /\ phase = "running"
    /\ settings \in Settings({0}, {FALSE})
    /\ budget = Budget(MaxClearItems, 0, 0, 1, 0)

NextClear ==
    \/ AddToQueue
    \/ AfterSaveKick
    \/ \E o \in ops : OpAfterSave1(o)
    \/ \E o \in ops : OpUploadSucceeds(o, TRUE)
    \/ \E o \in ops : OpUploadFails(o)
    \/ \E o \in ops : OpSettle(o)
    \/ ClearCompleted
    \/ ClearAfterSave

SpecClear == InitClear /\ [][NextClear]_vars


\* ---- SpecEvict: cleanupStorageIfNeeded runs once over the chunk directory while
\* the recorder hands the chunks whose files are in it to the queue
InitEvict ==
    /\ EmptyService
    /\ IdleCamera
    /\ stored = Null
    /\ phase = "running"
    /\ \E q \in Quotas, auto \in BOOLEAN :
          settings \in {[s EXCEPT !.maxLocalStorageGB = q, !.autoDeleteOldFiles = auto] :
                          s \in Settings({3}, {TRUE})}
    /\ \E n \in 1..MaxEvictFiles : disk \in Directories(n)
    /\ files = {}
    /\ budget = Budget(Len(disk), 0, 0, 0, 0)
    /\ \E now \in Clock : cleanup = IdleCleanup(now)

NextEvict ==
    \/ AddToQueue
    \/ CleanupStart
    \/ CleanupList
    \/ \E ok \in BOOLEAN : CleanupQuotaStep(ok)
    \/ CleanupAgeList
    \/ \E ok \in BOOLEAN : CleanupAgeStep(ok)

SpecEvict == InitEvict /\ [][NextEvict]_vars


\* ---- SpecOverlap: the user removes items and clears the completed ones while
\* earlier removeFromQueue calls are still awaiting the file check or the deletion,
\* and chunks are added and uploaded meanwhile
InitOverlap ==
    /\ EmptyService
    /\ IdleStorage
    /\ IdleCamera
    /\ stored = Null
    /\ files = {}
    /\ phase = "running"
    /\ settings \in Settings({0}, {FALSE})
    /\ budget = Budget(MaxOverlapItems, 0, MaxOverlapRemoves, 1, 0)

NextOverlap ==
    \/ \E o \in ops : OpAfterSave1(o)
    \/ \E o \in ops : OpSettle(o)
    \/ AfterSaveKick
    \/ \E o \in ops : OpUploadSucceeds(o, TRUE)
    \/ AddToQueue
    \/ \E id \in 1..MaxOverlapItems : RemoveFromQueue(id)
    \/ RemoveStep
    \/ ClearCompleted
    \/ ClearAfterSave

SpecOverlap == InitOverlap /\ [][NextOverlap]_vars


\* ---- SpecTorn: one screen is subscribed while the chunks of a batch are uploaded,
\* report progress, succeed (with or without the deletion of the file), fail and
\* are retried by their timers
InitTorn ==
    /\ uploadQueue = <<>>
    /\ item = [id \in Ids |-> NoItem]
    /\ isProcessing = FALSE
    /\ uploadPromises = {}
    /\ passes = <<>>
    /\ ops = {}
    /\ timers = [id \in Ids |-> 0]
    /\ resumes = 0
    /\ removes = {}
    /\ failCount = [id \in Ids |-> 0]
    /\ delays = [id \in Ids |-> <<>>]
    /\ noops = FALSE
    /\ nextId = 1
    /\ obs = OneSubscriber
    /\ clears = 0
    /\ call = [op |-> "none", id |-> 0, n |-> 0]
    /\ IdleStorage
    /\ IdleCamera
    /\ stored = Null
    /\ files = {}
    /\ phase = "running"
    /\ settings \in Settings({0, 1}, BOOLEAN)
    /\ budget = Budget(MaxTornItems, 0, 0, 0, 0)

NextTorn ==
    \/ AddToQueue
    \/ UploadStep
    \/ \E o \in ops, p \in Progress : OpProgress(o, p)
    \/ \E o \in ops, ok \in BOOLEAN : OpUploadSucceeds(o, ok)
    \/ \E o \in ops : OpUploadFails(o)
    \/ \E id \in Ids : TimerFire(id)

SpecTorn == InitTorn /\ [][NextTorn]_vars


\* ---- SpecLife: the whole life of an item: chunks are added, uploaded (the file
\* is kept), fail, are retried once by the timer and once by the user, removed
\* and cleared (one call of each), and the process is killed once and started again
InitLife ==
    /\ EmptyService
    /\ IdleStorage
    /\ IdleCamera
    /\ stored = Null
    /\ files = {}
    /\ phase = "running"
    /\ settings \in Settings({1}, {FALSE})
    /\ budget = Budget(MaxLifeItems, 1, 1, 1, 1)

NextLife ==
    \/ AddToQueue
    \/ AfterSaveKick
    \/ \E o \in ops : OpAfterSave1(o)
    \/ \E o \in ops : OpSettle(o)
    \/ \E o \in ops : OpUploadSucceeds(o, TRUE)
    \/ \E o \in ops : OpUploadFails(o)
    \/ \E id \in Ids : TimerFire(id)
    \/ \E id \in 1..MaxLifeItems : RetryUpload(id)
    \/ \E id \in 1..MaxLifeItems : RemoveFromQueue(id)
    \/ RemoveStep
    \/ ClearCompleted
    \/ ClearAfterSave
    \/ Crash
    \/ InitializeLoad
    \/ InitializeResume

SpecLife == InitLife /\ [][NextLife]_vars


\* ---- SpecTimer: uploads fail and are retried by their timers (one automatic
\* retry, the file is kept) while the user removes an item (one call) and
\* retries a failed one (one call)
InitTimer ==
    /\ EmptyService
    /\ IdleStorage
    /\ IdleCamera
    /\ stored = Null
    /\ files = {}
    /\ phase = "running"
    /\ settings \in Settings({1}, {FALSE})
    /\ budget = Budget(MaxTimerItems, 1, 1, 0, 0)

NextTimer ==
    \/ AddToQueue
    \/ AfterSaveKick
    \/ \E o \in ops : OpAfterSave1(o)
    \/ \E o \in ops : OpSettle(o)
    \/ \E o \in ops : OpUploadSucceeds(o, TRUE)
    \/ \E o \in ops : OpUploadFails(o)
    \/ \E id \in Ids : TimerFire(id)
    \/ \E id \in 1..MaxTimerItems : RetryUpload(id)
    \/ \E id \in 1..MaxTimerItems : RemoveFromQueue(id)
    \/ RemoveStep

SpecTimer == InitTimer /\ [][NextTimer]_vars


\* ---- SpecLate: the process starts on a persisted queue of pending chunks, and
\* the user removes one item (one call) while the resume pass works through its
\* batches; a failed upload is final (no automatic retry), the file is kept
InitLate ==
    /\ EmptyService
    /\ IdleStorage
    /\ IdleCamera
    /\ \E n \in 1..MaxLateItems :
          /\ stored = <<PendingSnapshot(n)>>
          /\ files = 1..n
    /\ phase = "dead"
    /\ settings \in Settings({0}, {FALSE})
    /\ budget = Budget(0, 0, 1, 0, 0)

NextLate ==
    \/ InitializeLoad
    \/ InitializeResume
    \/ \E o \in ops : OpAfterSave1(o)
    \/ \E o \in ops : OpUploadSucceeds(o, TRUE)
    \/ \E o \in ops : OpUploadFails(o)
    \/ \E o \in ops : OpSettle(o)
    \/ \E id \in 1..MaxLateItems : RemoveFromQueue(id)
    \/ RemoveStep

SpecLate == InitLate /\ [][NextLate]_vars


\* ---- SpecManual: chunks are enqueued, attempts succeed or fail, and the user
\* retries a failed item at any moment.  The event loop runs every continuation and
\* timer that is ready and every transport call resolves; enqueues and retryUpload
\* calls are the user's and the recorder's, and may never come.
InitManual ==
    /\ EmptyService
    /\ IdleStorage
    /\ IdleCamera
    /\ stored = Null
    /\ files = {}
    /\ phase = "running"
    /\ settings \in Settings({0, 1}, {FALSE})
    /\ budget = Budget(MaxManualItems, MaxManualRetries, 0, 0, 0)

ManualProgress ==
    \/ \E o \in ops : OpAfterSave1(o)
    \/ \E o \in ops : OpUploadSucceeds(o, TRUE)
    \/ \E o \in ops : OpUploadFails(o)
    \/ \E o \in ops : OpSettle(o)
    \/ AfterSaveKick
    \/ \E id \in Ids : TimerFireAfterSave(id)

NextManual ==
    \/ ManualProgress
    \/ AddToQueue
    \/ \E id \in 1..MaxManualItems : RetryUpload(id)

SpecManual == InitManual /\ [][NextManual]_vars /\ WF_vars(ManualProgress)


\* ---- SpecRecover: the process starts on a queue that an earlier run persisted, with
\* items in every state a save can have written; a chunk file may have been evicted
\* by the quota cleanup in the meantime.  The event loop runs initialize and
\* every continuation, and transport calls resolve; a retry timer may never fire.
PersistedKinds == {"fresh", "backoff", "uploading", "completed", "failed"}

\* item i as performUpload's and addToQueue's saves write it (maxRetryAttempts = 1)
PersistedItem(kind, i) ==
    LET it == NewItem([path |-> i, chunkIndex |-> i - 1]) IN
    CASE kind = "fresh" -> it
      [] kind = "backoff" -> [it EXCEPT !.progress = 0, !.retryCount = 1,
                                        !.error = "transport"]
      [] kind = "uploading" -> [it EXCEPT !.status = "uploading", !.progress = 0]
      [] kind = "completed" -> [it EXCEPT !.status = "completed", !.progress = 100]
      [] kind = "failed" -> [it EXCEPT !.status = "failed", !.progress = 0,
                                       !.retryCount = 1, !.error = "transport"]

InitRecover ==
    /\ EmptyService
    /\ IdleStorage
    /\ IdleCamera
    /\ \E n \in 1..MaxRecoverItems : \E kinds \in [1..n -> PersistedKinds] :
          /\ stored = <<[i \in 1..n |-> ItemToJSON(i, PersistedItem(kinds[i], i))]>>
          /\ files \in SUBSET (1..n)
    /\ phase = "dead"
    /\ settings \in Settings({1}, BOOLEAN)
    /\ budget = Budget(0, 0, 0, 0, 0)

RecoverProgress ==
    \/ InitializeLoad
    \/ InitializeResume
    \/ \E o \in ops : OpAfterSave1(o)
    \/ \E o \in ops, p \in Progress : OpProgress(o, p)
    \/ \E o \in ops, ok \in BOOLEAN : OpUploadSucceeds(o, ok)
    \/ \E o \in ops : OpAfterDelete(o)
    \/ \E o \in ops : OpUploadFails(o)
    \/ \E o \in ops : OpSettle(o)

NextRecover ==
    \/ RecoverProgress
    \/ \E id \in Ids : TimerFireAfterSave(id)

SpecRecover == InitRecover /\ [][NextRecover]_vars /\ WF_vars(RecoverProgress)

(***************************************************************************)
(* Claims.                                                                 *)
(***************************************************************************)
M == settings.maxRetryAttempts

\* C1 as stated: once an item's upload has failed exactly maxRetryAttempts times the
\* item is failed (and no further attempt starts).
C1_FailedAfterMFailures ==
    \A id \in Ids :
        (M >= 1 /\ failCount[id] = M) => item[id].status = "failed"

\* C1 amended: an item fails at most maxRetryAttempts + 1 times (the first attempt
\* and maxRetryAttempts retries); it is failed exactly when it has failed
\* maxRetryAttempts + 1 times, and then no upload of it is started or running except
\* the failed attempt finishing its save, until retryUpload resets it.
C1_RetryCeiling ==
    \A id \in Ids :
        /\ failCount[id] <= M + 1
        /\ item[id].retryCount <= M
        /\ (failCount[id] = M + 1) <=> (item[id].status = "failed")
        /\ (failCount[id] = M + 1) => \A o \in Running(Svc, id) : o.pc = "save2"

C1_Witness ==
    \E id \in Ids : M >= 1 /\ failCount[id] = M + 1 /\ item[id].status = "failed"
                    /\ Running(Svc, id) = {} /\ ~isProcessing

\* a processQueue call made while a pass is running
ReentrantCall ==
    /\ isProcessing
    /\ \/ BackgroundTask
       \/ \E id \in Ids : item[id].status = "pending" /\ TimerFire(id)

\* C3: a processQueue call made while a pass is running starts no upload and changes
\* no item, nor the queue, the persisted snapshot or the processing flag; at most one
\* pass is running at any time, and it is running exactly when the flag is set.
C3_ReentrantCallIsNoop ==
    /\ [][ReentrantCall => UNCHANGED <<uploadQueue, item, stored, isProcessing,
                                        passes, ops, uploadPromises>>]_vars
    /\ [](Len(passes) <= 1 /\ (isProcessing <=> Len(passes) = 1))

C3_Witness == noops /\ isProcessing /\ Len(passes) = 1 /\ ops # {}

Quiescent ==
    /\ ~isProcessing
    /\ passes = <<>>
    /\ ops = {}
    /\ resumes = 0
    /\ \A id \in Ids : timers[id] = 0

Enqueued == 1..(nextId - 1)

\* C2 (as the specification states it): with a transport that always succeeds,
\* every enqueued chunk is completed by the queue's own activity, so whenever the
\* queue has nothing left to run, every enqueued chunk is completed.
C2_IdleMeansAllCompleted ==
    Quiescent => \A id \in Enqueued : item[id].status = "completed"

\* C5: right after the load, an item persisted as uploading is pending with
\* progress 0, and every other item has its persisted status and retryCount; the
\* items are in their persisted order.
C5_NoDurableUploading ==
    (phase = "loaded" /\ stored # Null) =>
        /\ Len(uploadQueue) = Len(stored[1])
        /\ \A i \in 1..Len(stored[1]) :
              LET j == stored[1][i]
                  it == item[uploadQueue[i]]
              IN /\ uploadQueue[i] = j["id"]
                 /\ it.chunkIndex = j["chunkIndex"]
                 /\ IF j["status"] = "uploading"
                    THEN it.status = "pending" /\ it.progress = 0
                    ELSE it.status = j["status"] /\ it.retryCount = j["retryCount"]

C5_Witness ==
    /\ phase = "loaded"
    /\ stored # Null
    /\ Len(stored[1]) = 2
    /\ stored[1][1]["status"] = "failed"
    /\ stored[1][1]["retryCount"] = 1
    /\ stored[1][2]["status"] = "uploading"
    /\ "progress" \in DOMAIN stored[1][2]

C7_BoundedConcurrency ==
    /\ Cardinality({id \in Ids : item[id].status = "uploading"}) <= MAX_CONCURRENT_UPLOADS
    /\ Cardinality(ops) <= MAX_CONCURRENT_UPLOADS
    /\ \A i \in 1..Len(passes) :
          LET b == passes[i].batches
              k == passes[i].k
          IN passes[i].pc = "batch" =>
               /\ Len(b) >= 1 /\ k \in 1..Len(b)
               /\ \A j \in 1..Len(b) :
                     /\ Len(b[j]) \in 1..3
                     /\ j < Len(b) => Len(b[j]) = 3
                     /\ \A m \in 1..Len(b[j]) : b[j][m] = uploadQueue[3 * (j - 1) + m]
                     /\ j > k => \A m \in 1..Len(b[j]) :
                                    /\ item[b[j][m]].status = "pending"
                                    /\ Running(Svc, b[j][m]) = {}
                     /\ j < k => \A m \in 1..Len(b[j]) :
                                    /\ item[b[j][m]].status \in {"completed", "failed"}
                                    /\ Running(Svc, b[j][m]) = {}
               /\ Len(uploadQueue) = 3 * (Len(b) - 1) + Len(b[Len(b)])

C7_Witness ==
    /\ Len(uploadQueue) = 5
    /\ Len(passes) = 1
    /\ passes[1].k = 2
    /\ Len(passes[1].batches) = 2
    /\ Len(passes[1].batches[1]) = 3
    /\ passes[1].batches[2] = <<4, 5>>
    /\ item[4].status = "uploading"
    /\ item[5].status = "uploading"
    /\ \A id \in 1..3 : item[id].status \in {"completed", "failed"}

\* C8: the k-th retry an item is given is scheduled RETRY_DELAY_BASE * 2^(k-1)
\* after the failure, k - 1 being the retryCount before that failure: 5 s, 10 s,
\* 20 s, ..., each longer than the one before.
C8_Backoff ==
    \A id \in Ids :
        /\ Len(delays[id]) = item[id].retryCount
        /\ \A k \in 1..Len(delays[id]) :
              /\ delays[id][k] = RETRY_DELAY_BASE * Pow2(k - 1)
              /\ k = 1 => delays[id][k] = 5000
              /\ k = 2 => delays[id][k] = 10000
              /\ k = 3 => delays[id][k] = 20000
              /\ k > 1 => delays[id][k] > delays[id][k - 1]

C8_Witness ==
    /\ delays[1] = <<5000, 10000, 20000>>
    /\ item[1].status = "pending"
    /\ item[1].retryCount = 3
    /\ timers[1] = 1

\* the quota phase of the cleanup is over
QuotaPhaseDone == cleanup.pc \in {"ageList", "age", "done"}

\* the files of the directory the cleanup started on that it has (not) evicted
Evicted == SelectSeq(cleanup.initial, LAMBDA f : f.name \in cleanup.evicted)
Kept == SelectSeq(cleanup.initial, LAMBDA f : f.name \notin cleanup.evicted)

C10_ChunkSequencing ==
    (cam.stopCalls = 0 /\ ~cam.failed) =>
        /\ \A i \in 1..Len(uploadQueue) : item[uploadQueue[i]].chunkIndex = i - 1
        /\ Len(uploadQueue) <= cam.rotations
        /\ (camOps = {} /\ cam.isRecording) =>
              /\ Len(uploadQueue) = cam.rotations
              /\ cam.currentChunkIndex = cam.rotations
              /\ cam.currentRecordingPromise = cam.rotations + 1
              /\ cam.currentChunkFileName = <<cam.rotations>>
              /\ cam.chunkTimer

C10_Witness ==
    /\ cam.stopCalls = 0
    /\ ~cam.failed
    /\ camOps = {}
    /\ cam.isRecording
    /\ cam.rotations = 3
    /\ Len(uploadQueue) = 3
    /\ item[uploadQueue[3]].chunkIndex = 2
    /\ cam.currentChunkIndex = 3

\* C11: a removeFromQueue call on an item of the queue, whatever its status, takes
\* exactly that item out of the queue and persists the result, whether or not the
\* file existed or its deletion failed; the file is gone once a deletion that was
\* issued did not fail; a call with an id that is not in the queue changes neither
\* the queue, nor the items, nor the persisted value, nor the files.
Without(q, id) == SelectSeq(q, LAMBDA i : i # id)

RemoveOutcome ==
    /\ \A r \in removes' :
          (r.pc = "save" /\ r \notin removes) =>
             /\ InQueue(Svc, r.id)
             /\ uploadQueue' = Without(uploadQueue, r.id)
             /\ item' = item
             /\ stored' = <<Stringify([uploadQueue |-> uploadQueue', item |-> item'])>>
    /\ \A r \in removes' :
          (r.pc \in {"delete", "save"} /\ r.exists /\ ~r.deleteFailed) => r.id \notin files'
    /\ (call'.n # call.n /\ call'.op = "removeFromQueue" /\ ~InQueue(Svc, call'.id)) =>
          UNCHANGED <<uploadQueue, item, stored, files, removes, obs>>

C11_RemoveFromQueue == [][RemoveOutcome]_vars

\* an item that is being uploaded has been removed although the deletion of its
\* file failed
C11_Witness ==
    \E r \in removes :
        /\ r.pc = "save" /\ r.deleteFailed
        /\ item[r.id].status = "uploading"
        /\ ~InQueue(Svc, r.id)
        /\ r.id \in files

\* C12: a startRecording call made while the recorder is not idle (the recording
\* flag is set, a take is in progress, the rotation timer is pending or a
\* stopRecording call has not returned yet) is rejected and leaves the chunk
\* index, the take, the timer, the config and the running calls as they are.
StopInFlight == \E a \in camOps : a.kind = "stop"

NotIdle ==
    \/ cam.isRecording
    \/ cam.currentRecordingPromise # 0
    \/ cam.chunkTimer
    \/ StopInFlight

StartCalled == cam'.left.starts = cam.left.starts - 1

StartRejected ==
    /\ cam' = [cam EXCEPT !.left.starts = @ - 1, !.rejected = TRUE]
    /\ camOps' = camOps

C12_StartWhileNotIdle == [][(StartCalled /\ NotIdle) => StartRejected]_vars

\* C13: a retryUpload call on a failed item of the queue sets it to pending with
\* retryCount 0 and no error, leaves the other items and the order alone, persists
\* the result and, when the save has returned, hands the queue to every
\* subscriber; a call on an id that is not in the queue or on an item that is not
\* failed changes no item, persists nothing, notifies nobody and starts nothing.
RetryCalled == call'.n = call.n + 1 /\ call'.op = "retryUpload"

\* the continuation of addToQueue or retryUpload runs
ContinuationRuns == resumes' = resumes - 1 /\ phase' = phase

Persisted == <<Stringify(Svc)>>

RetryOutcome ==
    /\ RetryCalled =>
          IF InQueue(Svc, call'.id) /\ item[call'.id].status = "failed"
          THEN /\ item' = [item EXCEPT ![call'.id] =
                             [@ EXCEPT !.status = "pending", !.retryCount = 0,
                                       !.error = NoError]]
               /\ uploadQueue' = uploadQueue
               /\ stored' = Persisted'
               /\ obs'.last = obs.last
               /\ resumes' = resumes + 1
          ELSE UNCHANGED <<uploadQueue, item, stored, obs, resumes, isProcessing,
                           passes, ops, timers, uploadPromises>>
    /\ ContinuationRuns => \A c \in Registered(Svc) : obs'.last[c] = <<Snapshot(Svc)>>

C13_RetryUpload == [][RetryOutcome]_vars

\* a subscriber has been handed the queue in which the retried item, uploaded
\* once and failed, is pending again
C13_Witness ==
    /\ call.op = "retryUpload"
    /\ budget.crashes = 1
    /\ InQueue(Svc, call.id)
    /\ item[call.id].progress # Undefined
    /\ \E c \in Registered(Svc) :
          /\ obs.last[c] # <<>>
          /\ Len(obs.last[c][1]) = 1
          /\ obs.last[c][1][1].item.status = "pending"
          /\ obs.last[c][1][1].item.retryCount = 0
          /\ obs.last[c][1][1].item.error = NoError
          /\ obs.last[c][1][1].item.progress # Undefined

\* C20: no subscriber is called once its unsubscribe function has been called;
\* and whenever the service is running with no call of it suspended, every
\* subscriber that is registered has been handed the queue exactly as it is now,
\* item by item and field by field, unless the queue has not changed since it
\* subscribed.
Settled ==
    /\ phase = "running"
    /\ ops = {}
    /\ resumes = 0
    /\ removes = {}
    /\ clears = 0

C20_Subscribers ==
    /\ obs.late = {}
    /\ Settled =>
          \A c \in Registered(Svc) :
              \/ obs.last[c] = <<Snapshot(Svc)>>
              \/ obs.last[c] = <<>> /\ c \in obs.fresh

\* the first subscriber has unsubscribed; the second one, registered behind it,
\* has since been handed the queue with the completed item
C20_Witness ==
    /\ Settled
    /\ 1 \in obs.gone
    /\ Registered(Svc) = {2}
    /\ uploadQueue # <<>>
    /\ item[uploadQueue[1]].status = "completed"
    /\ obs.last[2] = <<Snapshot(Svc)>>

\* C17: the step of addToQueue that pushes appends exactly one item, pending, with
\* retryCount 0, no progress, no error and the chunk's data, behind the items that
\* were there, which stay as they are and in their order; the queue with the new
\* item is persisted in that step, before any subscriber is called and before
\* any pass or upload is started.  When the save has returned, every subscriber
\* is handed the queue as it is before a pass touches it, and then a pass is
\* started if and only if none is running.
AddCalled == nextId' = nextId + 1

AddOutcome ==
    /\ AddCalled =>
          /\ uploadQueue' = Append(uploadQueue, nextId)
          /\ item' = [item EXCEPT ![nextId] =
                        [status |-> "pending", progress |-> Undefined, retryCount |-> 0,
                         error |-> NoError, chunkIndex |-> nextId - 1]]
          /\ nextId \in files'
          /\ stored' = Persisted'
          /\ obs'.last = obs.last
          /\ resumes' = resumes + 1
          /\ UNCHANGED <<isProcessing, passes, ops, uploadPromises, timers>>
    /\ ContinuationRuns =>
          /\ \A c \in Registered(Svc) : obs'.last[c] = <<Snapshot(Svc)>>
          /\ uploadQueue' = uploadQueue
          /\ isProcessing => UNCHANGED <<item, isProcessing, passes, ops, stored>>
          /\ (~isProcessing /\ Len(PendingItems(Svc)) > 0) =>
                /\ isProcessing'
                /\ Len(passes') = 1
                /\ \A i \in 1..Len(PendingItems(Svc)) :
                      i <= MAX_CONCURRENT_UPLOADS =>
                         item'[PendingItems(Svc)[i]].status = "uploading"

C17_AddToQueue == [][AddOutcome]_vars

\* the second chunk was added behind the first while the first was being uploaded,
\* and the subscriber has been handed the queue of the two
C17_Witness ==
    /\ Len(uploadQueue) = 2
    /\ resumes = 0
    /\ item[uploadQueue[1]].status = "uploading"
    /\ item[uploadQueue[2]].status = "pending"
    /\ stored = Persisted
    /\ obs.last[1] = <<Snapshot(Svc)>>

\* C18: the step of clearCompleted takes out of the queue exactly the items whose
\* status is completed: an item is in the queue afterwards if and only if it was
\* in it and is not completed, the items that stay keep their fields and their
\* order, the result is persisted, and the uploads in flight, the passes and the
\* files are left alone.
ClearCalled == budget'.clears = budget.clears - 1

ClearOutcome ==
    ClearCalled =>
        /\ \A id \in Ids :
              InQueue(Svc', id) <=> (InQueue(Svc, id) /\ item[id].status # "completed")
        /\ \A a, b \in Ids :
              (InQueue(Svc', a) /\ InQueue(Svc', b)) =>
                 (FindIndex(uploadQueue', a) < FindIndex(uploadQueue', b)
                    <=> FindIndex(uploadQueue, a) < FindIndex(uploadQueue, b))
        /\ Len(uploadQueue') = Cardinality({id \in Ids : InQueue(Svc', id)})
        /\ item' = item
        /\ stored' = Persisted'
        /\ UNCHANGED <<ops, uploadPromises, passes, isProcessing, timers, files>>

C18_ClearCompleted == [][ClearOutcome]_vars

\* the completed second item has been cleared from between a failed one and one
\* that is being uploaded
C18_Witness ==
    /\ budget.clears = 0
    /\ uploadQueue = <<1, 3>>
    /\ item[1].status = "failed"
    /\ item[2].status = "completed"
    /\ item[3].status = "uploading"
    /\ ops # {}

\* C14: when performUpload finds that the source file no longer exists, the item
\* is failed in that step, its retryCount stays as it was and no retry timer is
\* set for it.
FoundMissing(o) == o.err = "File no longer exists" /\ o.pc = "save2"

MissingFileIsPermanent ==
    \A o \in ops' :
        (FoundMissing(o) /\ o \notin ops) =>
            /\ item'[o.id].status = "failed"
            /\ item'[o.id].retryCount = item[o.id].retryCount
            /\ timers'[o.id] = timers[o.id]

C14_MissingFileIsPermanent == [][MissingFileIsPermanent]_vars

\* C16: when the recorder has called config.onError and the handler has returned,
\* the recording flag is false, no take is in progress and no rotation timer is
\* pending, and the chunks enqueued before are still in the queue.
ErrorReported == cam'.reports = cam.reports + 1

IdleRecorder ==
    /\ ~cam.isRecording
    /\ cam.currentRecordingPromise = 0
    /\ ~cam.chunkTimer

C16_IdleAfterError ==
    [][ErrorReported => (IdleRecorder' /\ uploadQueue' = uploadQueue)]_vars

\* C19: when a stopRecording call returns without throwing, no rotation timer is
\* pending, no take is being recorded or finalized, every take of the session has
\* been enqueued unless a failure was met, and no upload has been cancelled; and
\* once it has returned, no take is started while the recording flag stays false.
StopReturned == cam'.returns = cam.returns + 1

Finalizing == \E a \in camOps : a.pc \in {"finalize", "enqueue"}

Enqueued_ == nextId - 1

StoppedForGood ==
    /\ StopReturned =>
          /\ ~cam'.chunkTimer
          /\ cam'.strayTimers = 0
          /\ cam'.currentRecordingPromise = 0
          /\ ~Finalizing'
          /\ ~cam'.failed => Enqueued_' = cam'.takes
          /\ ops \subseteq ops' /\ uploadPromises \subseteq uploadPromises'
    /\ (cam.returns > 0 /\ ~cam.isRecording /\ ~cam'.isRecording /\ ~StopInFlight) =>
          cam'.takes = cam.takes

C19_StopRecording == [][StoppedForGood]_vars

\* C15: no step of a cleanup pass, quota eviction or age-based deletion, deletes
\* a file that is the filePath of an item of the queue whose status is pending or
\* uploading.
Referenced(path) ==
    \E id \in Ids :
        /\ InQueue(Svc, id)
        /\ item[id].status \in {"pending", "uploading"}
        /\ FilePath(id) = path

Deleted(f) == \A i \in 1..Len(disk') : disk'[i].name # f.name

C15_EvictionRespectsQueue ==
    [][\A i \in 1..Len(disk) : Deleted(disk[i]) => ~Referenced(LocalPath(disk[i]))]_vars

\* C21: the step of a removeFromQueue call that splices takes out of the queue the
\* item with the id the call was given, if it is still there, and no other item,
\* whatever other calls (clearCompleted, removeFromQueue, addToQueue) ran while the
\* call was awaiting the file check and the deletion.
Splices(r) == r.pc # "save" /\ [r EXCEPT !.pc = "save"] \in removes'

RemovesOnlyItsItem ==
    \A r \in removes : Splices(r) => uploadQueue' = Without(uploadQueue, r.id)

C21_RemoveUnderInterleaving == [][RemovesOnlyItsItem]_vars

\* C22: every snapshot that is handed to a subscriber, the ones that a progress
\* callback hands over set aside, shows every item with the status and the
\* retryCount that storage holds for it at that moment: no item is shown as
\* completed, failed or back to pending before that has been written.
ProgressTick ==
    \E id \in Ids : /\ item[id].status = "uploading" /\ item'[id].status = "uploading"
                    /\ item'[id].progress # item[id].progress

Delivered(c) == obs'.last[c] # obs.last[c] /\ obs'.last[c] # <<>>

\* the persisted array holds the item of the snapshot with its status and retryCount
PersistedAs(e) ==
    /\ stored # Null
    /\ \E j \in 1..Len(stored[1]) :
          /\ stored[1][j]["id"] = e.id
          /\ stored[1][j]["status"] = e.item.status
          /\ stored[1][j]["retryCount"] = e.item.retryCount

NoTornSnapshot ==
    \A c \in Subs :
        (Delivered(c) /\ ~ProgressTick) =>
            \A i \in 1..Len(obs'.last[c][1]) : PersistedAs(obs'.last[c][1][i])

C22_NoTornState == [][NoTornSnapshot]_vars

\* C23: no take is finalized twice: the stopCurrentChunk calls in flight hold
\* different takes, a take whose chunk was handed to the queue is held by no call
\* that has still to hand it over, and no two enqueued chunks come from one take;
\* a call that has handed its chunk over has enqueued exactly one chunk for it.
InStopCurrentChunk == {a \in camOps : a.pc \in {"finalize", "enqueue"}}

ChunksOf(take) == {i \in 1..Len(cam.chunks) : cam.chunks[i].take = take}

C23_NoDoubleFinalization ==
    /\ \A a, b \in InStopCurrentChunk : a.take = b.take => a = b
    /\ \A a \in InStopCurrentChunk :
          /\ a.take # 0
          /\ a.take # cam.currentRecordingPromise
          /\ Cardinality(ChunksOf(a.take)) = IF a.pc = "enqueue" THEN 1 ELSE 0
    /\ \A take \in 1..cam.takes : Cardinality(ChunksOf(take)) <= 1

\* stopRecording was called and returned while the rotation that the timer started
\* was finalizing take 2; that rotation has handed over the one chunk of the take
C23_Witness ==
    /\ \E a \in camOps : a.kind = "rotate" /\ a.pc = "enqueue" /\ a.take = 2
    /\ cam.stopCalls = 1
    /\ cam.returns = 1
    /\ ~cam.isRecording
    /\ Len(cam.chunks) = 2
    /\ cam.chunks[2].take = 2

\* C24: while the process runs (resumePendingUploads included), the status of an
\* item changes only from pending to uploading, from uploading to completed,
\* pending (a retry was granted) or failed, and from failed to pending (by retryUpload, and by nothing else); a new
\* item starts as pending; at load an item has its persisted status, but pending
\* if that was uploading; completed never changes; and the steps of retryUpload,
\* removeFromQueue and clearCompleted never set an item to uploading or completed.
Transitions ==
    {<<"pending", "uploading">>, <<"uploading", "completed">>,
     <<"uploading", "pending">>, <<"uploading", "failed">>, <<"failed", "pending">>}

UserStep ==
    \/ call'.n # call.n
    \/ removes' # removes
    \/ budget'.clears # budget.clears
    \/ clears' < clears

PersistedStatus(id) ==
    LET queue == stored[1]
    IN queue[CHOOSE j \in 1..Len(queue) : queue[j]["id"] = id]["status"]

ItemLifecycle ==
    /\ (phase # "dead" /\ phase' # "dead") =>
          \A id \in Ids :
              item'[id].status # item[id].status =>
                  /\ \/ <<item[id].status, item'[id].status>> \in Transitions
                     \/ item[id].status = "none" /\ item'[id].status = "pending"
                                                 /\ id = nextId
                  /\ item[id].status = "failed" =>
                        call'.n = call.n + 1 /\ call'.op = "retryUpload" /\ call'.id = id
                  /\ (item[id].status = "uploading" /\ item'[id].status = "pending") =>
                        item'[id].retryCount = item[id].retryCount + 1
                  /\ ~UserStep \/ item'[id].status \notin {"uploading", "completed"}
    /\ (phase = "dead" /\ phase' = "loaded" /\ stored # Null) =>
          \A i \in 1..Len(uploadQueue') :
              item'[uploadQueue'[i]].status =
                  IF PersistedStatus(uploadQueue'[i]) = "uploading" THEN "pending"
                  ELSE PersistedStatus(uploadQueue'[i])

C24_ItemLifecycle == [][ItemLifecycle]_vars

\* in its first run the process has uploaded item 1 twice without success (its
\* progress is set), the item was failed, and retryUpload has made it pending
\* with retryCount 0
C24_Witness ==
    /\ phase = "running"
    /\ budget.crashes = 1
    /\ call.op = "retryUpload" /\ call.id = 1
    /\ item[1].status = "pending"
    /\ item[1].progress # Undefined
    /\ item[1].retryCount = 0
    /\ item[1].error = NoError

\* C25: within the session, every chunk handed to the queue carries the index of
\* the take it was recorded in (the index its file name was generated from), and
\* the indices of the chunks are strictly increasing in the order of the hand-over.
C25_ChunkIndices ==
    /\ \A i \in 1..Len(cam.chunks) : <<cam.chunks[i].chunkIndex>> = cam.chunks[i].file
    /\ \A i, j \in 1..Len(cam.chunks) :
          i < j => cam.chunks[i].chunkIndex < cam.chunks[j].chunkIndex

\* C26: in every state at most one take is being recorded (started by recordAsync
\* and not stopped by a stopCurrentChunk) and at most one rotation timer is
\* pending, whatever the order of startRecording, stopRecording and the rotations.
PendingTimers == (IF cam.chunkTimer THEN 1 ELSE 0) + cam.strayTimers

C26_AtMostOneSession ==
    /\ Cardinality(cam.recording) <= 1
    /\ PendingTimers <= 1

\* C27: whenever the service is running with no queue operation in progress (no
\* pass, no upload, no addToQueue, retryUpload, removeFromQueue or clearCompleted
\* call suspended, the load done), storage holds the queue as it is in memory:
\* the same items in the same order, each with its status and retryCount.
NoOperationInProgress ==
    /\ phase = "running"
    /\ ~isProcessing
    /\ passes = <<>>
    /\ ops = {}
    /\ resumes = 0
    /\ removes = {}
    /\ clears = 0

PersistedQueue == IF stored = Null THEN <<>> ELSE stored[1]

TimerFired(id) == timers'[id] = timers[id] - 1

TimerIsGuarded ==
    \A id \in Ids :
        (TimerFired(id) /\ ~(InQueue(Svc, id) /\ item[id].status = "pending")) =>
            UNCHANGED <<uploadQueue, item, isProcessing, uploadPromises, stored,
                        passes, ops>>

C28_RetryTimerGuard == [][TimerIsGuarded]_vars

\* C29: once a failed attempt has scheduled a retry of an item, no new attempt of
\* that item starts while the retry timer is still pending (the delay has not
\* elapsed); an attempt starts at the earliest in the step in which the timer fires.
AttemptStarts(id) == item[id].status = "pending" /\ item'[id].status = "uploading"

BackoffRespected == \A id \in Ids : AttemptStarts(id) => timers'[id] = 0

C29_BackoffRespected == [][BackoffRespected]_vars

\* C30: with deleteAfterUpload on, in every state (the process may be killed in
\* any of them) every item whose file the post-upload cleanup has deleted is
\* persisted as completed, so that no reload brings it back as pending.
FileDeleted(id) == id \in Enqueued /\ id \notin files

PersistedAsCompleted(id) ==
    \E j \in 1..Len(PersistedQueue) :
        PersistedQueue[j]["id"] = id /\ PersistedQueue[j]["status"] = "completed"

C30_CrashSafeDelete ==
    settings.deleteAfterUpload =>
        \A id \in Ids : FileDeleted(id) => PersistedAsCompleted(id)

\* C31: an item that removeFromQueue has taken out of the queue while it was
\* pending is never uploaded: an attempt starts only for an item that is in the
\* queue (or whose removeFromQueue call has not yet returned); and an item that
\* has left the queue is neither in the queue nor in the persisted array again.
BeingRemoved(id) == \E r \in removes : r.id = id

Known(id) == item[id].status # "none"

NoUploadAfterRemoval ==
    \A id \in Ids :
        /\ AttemptStarts(id) => (InQueue(Svc, id) \/ BeingRemoved(id))
        /\ (Known(id) /\ ~InQueue(Svc, id) /\ phase' # "dead") =>
              /\ \A i \in 1..Len(uploadQueue') : uploadQueue'[i] # id
              /\ (~BeingRemoved(id)) =>
                    \A j \in 1..Len(stored'[1]) : stored'[1][j]["id"] # id

C31_NoUploadAfterRemoval == [][NoUploadAfterRemoval]_vars

\* C32: a chunk is handed to the queue only when its take's output was moved and
\* the moved file was then found to exist with a size; when the take gave no
\* output, the move failed or the check failed, stopCurrentChunk threw (the error
\* went to onError or out of stopRecording) and no chunk of that take is enqueued.
MovedThenChecked(passed) ==
    \E i, j \in 1..Len(passed) : i < j /\ passed[i] = "move" /\ passed[j] = "check"

C32_MoveVerifyEnqueue ==
    cam.lastEnd.take # 0 =>
        /\ ChunksOf(cam.lastEnd.take) # {} =>
              ~cam.lastEnd.threw /\ MovedThenChecked(cam.lastEnd.passed)
        /\ cam.lastEnd.outcome \in {"noOutput", "move", "check"} =>
              /\ cam.lastEnd.threw
              /\ cam.failed
              /\ ChunksOf(cam.lastEnd.take) = {}

\* take 1 was enqueued; the moved file of take 2 failed the check
C32_Witness ==
    /\ cam.lastEnd.take = 2
    /\ cam.lastEnd.outcome = "check"
    /\ Len(cam.chunks) = 1
    /\ cam.chunks[1].take = 1
    /\ Len(uploadQueue) = 1

\* C34: the processing guard is true exactly while a pass is running, and a running
\* pass is one that awaits a batch with an upload of it still running: when the
\* uploads it started have ended, the pass has ended and the guard is false.  No
\* upload that has ended, whatever went wrong in it, leaves its item uploading.
AwaitsRunningBatch(p) ==
    /\ p.pc = "batch"
    /\ \E k \in 1..Len(p.batches[p.k]) : Running(Svc, p.batches[p.k][k]) # {}

C34_GuardAndFailures ==
    /\ isProcessing <=> passes # <<>>
    /\ Len(passes) <= 1
    /\ \A i \in 1..Len(passes) : AwaitsRunningBatch(passes[i])
    /\ \A id \in Ids : item[id].status = "uploading" => Running(Svc, id) # {}
    /\ \A o \in ops : o.pc = "save2" => item[o.id].status # "uploading"

\* the upload found its file missing, the failure became the item's state
\* (pending, retryCount 1, the error recorded), and the pass has ended
C34_Witness ==
    /\ phase = "running"
    /\ ~isProcessing
    /\ passes = <<>>
    /\ ops = {}
    /\ item[1].status = "pending"
    /\ item[1].retryCount = 1
    /\ item[1].error = "File no longer exists"

\* C35: after retryUpload(id) on a failed item, a new upload attempt of that item
\* eventually starts with no further external trigger, also when the call came while
\* a processing pass was running.
\* the last call was retryUpload(id) and it reset the item, which had been attempted
\* before, and no attempt of it has started since
Retried(id) ==
    /\ call.op = "retryUpload"
    /\ call.id = id
    /\ item[id].status = "pending"
    /\ item[id].retryCount = 0
    /\ item[id].error = NoError
    /\ item[id].progress # Undefined

C35_ManualRetryProgress ==
    \A id \in 1..MaxManualItems : Retried(id) ~> (item[id].status = "uploading")

\* C36: after initialize has loaded a persisted queue, every item that is pending
\* (persisted as pending or as uploading) is eventually attempted, with no retry
\* timer firing and no enqueue; a completed or failed item is never attempted and
\* keeps its status.
AttemptBegins(id) == \E o \in ops' \ ops : o.id = id /\ o.pc = "save1"

\* an item stops being pending only by an attempt of it that begins, and a completed
\* or failed item is not attempted and stays as it is
OnlyPendingAttempted ==
    \A id \in Ids :
        /\ item[id].status = "pending" /\ item'[id].status # "pending"
              => AttemptBegins(id)
        /\ item[id].status \in {"completed", "failed"}
              => ~AttemptBegins(id) /\ item'[id].status = item[id].status

C36_RecoveryResumes ==
    /\ \A id \in 1..MaxRecoverItems :
          (phase = "loaded" /\ item[id].status = "pending")
              ~> (item[id].status = "uploading")
    /\ [][OnlyPendingAttempted]_vars

\* the resume pass attempts an item that was waiting for its retry timer when the
\* process died: no timer exists in this run and none of its attempts has failed yet
C36_Witness ==
    /\ phase = "running"
    /\ \A id \in Ids : timers[id] = 0 /\ delays[id] = <<>> /\ failCount[id] = 0
    /\ item[1].status = "uploading"
    /\ item[1].retryCount = 1
    /\ Running(Svc, 1) # {}

\* C37: a gallery save that fails during finalization raises no error and the chunk
\* is enqueued all the same; a source file that cannot be deleted after a successful
\* upload leaves the item completed with its retryCount as it was.  (Here every
\* transport call succeeds, so only a deletion could make an upload fail.)
GalleryFailureHarmless ==
    (cam.lastEnd.outcome = "gallery" /\ cam.lastEnd.passed = <<"result", "move", "check">>)
        => /\ ~cam.lastEnd.threw
           /\ \E k \in 1..Len(cam.chunks) :
                 /\ cam.chunks[k].take = cam.lastEnd.take
                 /\ k <= Len(uploadQueue)
                 /\ item[uploadQueue[k]].status # "none"

DeleteFailureHarmless ==
    /\ \A id \in Ids :
          /\ item[id].status \in {"none", "pending", "uploading", "completed"}
          /\ item[id].retryCount = 0
          /\ item[id].error = NoError
    /\ \A o \in ops : o.pc \in {"delete", "save2"} => item[o.id].status = "completed"

C37_BestEffortSteps == GalleryFailureHarmless /\ DeleteFailureHarmless

\* the gallery save of the second take failed and its chunk is the second item of
\* the queue; the first item was uploaded, its file could not be deleted, and it
\* is completed with the upload over
C37_Witness ==
    /\ cam.lastEnd.outcome = "gallery"
    /\ cam.lastEnd.take = 2
    /\ Len(cam.chunks) = 2
    /\ Len(uploadQueue) = 2
    /\ settings.deleteAfterUpload
    /\ item[uploadQueue[1]].status = "completed"
    /\ uploadQueue[1] \in files
    /\ Running(Svc, uploadQueue[1]) = {}

\* C38: in the quota loop a file whose deletion fails is skipped: it stays, its size
\* stays in the running total, and the loop goes on with the next file in
\* oldest-first order.  Every turn of the loop takes one file off the list, so each
\* file has at most one deletion attempt; once the running total is at or below the
\* target nothing is deleted and the loop ends.  The running total is the size of
\* the directory all along.
OldestFirstList(fs) ==
    \A i \in 1..(Len(fs) - 1) : fs[i].createdAt <= fs[i + 1].createdAt

QuotaTurn ==
    cleanup.pc = "quota" =>
        /\ OldestFirstList(cleanup.list)
        /\ cleanup.currentSize = TotalSize(disk)
        /\ cleanup'.currentSize = TotalSize(disk')
        /\ IF cleanup.list = <<>> \/ AtTarget(cleanup.currentSize, MaxStorageBytes)
           THEN disk' = disk /\ cleanup'.pc # "quota"
           ELSE /\ cleanup'.pc = "quota"
                /\ cleanup'.list = Tail(cleanup.list)
                /\ \/ /\ disk' = DeleteFile(disk, Head(cleanup.list).name)
                      /\ cleanup'.currentSize =
                            cleanup.currentSize - Head(cleanup.list).size
                   \/ /\ disk' = disk
                      /\ cleanup'.currentSize = cleanup.currentSize

C38_EvictionUnderFailures == [][QuotaTurn]_vars

\* the deletion of the oldest file failed, the loop went on and evicted a newer
\* one, and the quota phase is over with the oldest file still in the directory
C38_Witness ==
    /\ cleanup.pc = "ageList"
    /\ cleanup.deleteFailed
    /\ cleanup.evicted # {}
    /\ \E i \in 1..Len(disk) : \E j \in 1..Len(Evicted) :
          disk[i].createdAt < Evicted[j].createdAt
    /\ AtTarget(TotalSize(disk), MaxStorageBytes)

\* C39: with maxRetryAttempts = M every item of the queue has 0 <= retryCount <= M
\* in every state, and a step changes an item's retryCount only by adding 1 when an
\* attempt of it fails and is going to be retried (the item goes back to pending and
\* a retry timer is set), or by setting it to 0 in retryUpload.  (An item that the
\* memory does not hold before or after the step, as when the process dies or
\* loads its queue, has no change to speak of.)
RetryCountInRange ==
    \A id \in Ids : item[id].retryCount \in 0..settings.maxRetryAttempts

RetryCountStep(id) ==
    \/ item[id].status = "none" \/ item'[id].status = "none"
    \/ item'[id].retryCount = item[id].retryCount
    \/ /\ item'[id].retryCount = item[id].retryCount + 1
       /\ item[id].status = "uploading"
       /\ item'[id].status = "pending"
       /\ failCount'[id] = failCount[id] + 1
       /\ timers'[id] = timers[id] + 1
    \/ /\ item'[id].retryCount = 0
       /\ item[id].status = "failed"
       /\ call'.n = call.n + 1
       /\ call'.op = "retryUpload"
       /\ call'.id = id

RetryCountChanges ==
    /\ RetryCountInRange
    /\ RetryCountInRange'
    /\ \A id \in Ids : RetryCountStep(id)

C39_RetryCountBounds == [][RetryCountChanges]_vars

\* an item used up its attempts (retryCount = M = 2), was reset by retryUpload, and
\* its next attempt failed: retryCount is 1 again and a timer is set
C39_Witness ==
    /\ settings.maxRetryAttempts = 2
    /\ call.op = "retryUpload"
    /\ call.id = 1
    /\ item[1].status = "pending"
    /\ item[1].retryCount = 1
    /\ failCount[1] = 1
    /\ timers[1] = 1

====
